---- MODULE Spec2Model ----
(***************************************************************************)
(* Batch processing of a folder of images (src/src/batch_processor.py) as  *)
(* driven by the batch GUI frame (src/src/gui/batch_frame.py).             *)
(*                                                                         *)
(* One thread executes BatchProcessor.process_folder (the dispatch         *)
(* thread); the ThreadPoolExecutor's workers execute _process_single_file; *)
(* any other thread may call cancel_processing at any time.  The program   *)
(* counter pc names the line of process_folder the dispatch thread is      *)
(* about to execute.                                                       *)
(*                                                                         *)
(* Three further parts of the program have their own specifications: the   *)
(* file discovery loop of process_folder over any folder (DiscoverySpec),  *)
(* the export of a result set by src/src/export.py and by                  *)
(* BatchProcessor.export_results (ExportSpec), and the camera of           *)
(* src/src/camera.py with its capture thread and the threads that call     *)
(* get_frame (CameraSpec).                                                 *)
(***************************************************************************)
EXTENDS Integers, Sequences, FiniteSets

\* ------------------------------------------------------------ bounds
\* Largest number of discovered entries (tasks) of one batch.
MaxFiles == 3
\* Largest max_workers argument a caller other than the frame passes.
MaxWorkers == 2

\* The capture threads that can exist at a time (MaxLoops where start and
\* stop are called in any order and a stop can give up joining), the
\* threads that call get_frame, the cap.read() calls of a run and the
\* cells of a frame.
MaxThreads == 1
MaxLoops == 2

\* The device indices get_available_cameras is tried with.
MaxIndex == 4
MaxGetters == 2
MaxCaptures == 2
FrameCells == 2

\* Largest result set and largest failure list given to an export.
MaxRecords == 2
MaxFailed == 2

\* The default of process_folder's max_workers parameter, which the frame
\* uses.
DefaultMaxWorkers == 2

\* ------------------------------------------------------------ files
\* The directory entries a folder may hold, each with its full path and
\* its name.  depth 0 is the folder itself, depth 1 a subfolder; ext is the
\* name's suffix folded to lower case and ecase says how the suffix is
\* spelled (".jpg", ".JPG", ".Jpg").
UniverseFiles ==
  { [path |-> "folder/a.jpg", name |-> "a.jpg",
     ext |-> "jpg", ecase |-> "lower", depth |-> 0],
    [path |-> "folder/b.PNG", name |-> "b.PNG",
     ext |-> "png", ecase |-> "upper", depth |-> 0],
    [path |-> "folder/sub/a.bmp", name |-> "a.bmp",
     ext |-> "bmp", ecase |-> "lower", depth |-> 1],
    [path |-> "folder/e.txt", name |-> "e.txt",
     ext |-> "txt", ecase |-> "lower", depth |-> 0] }

\* What the path given to process_folder names.
FolderKinds == {"dir", "file", "missing"}

\* The extensions process_folder globs for, in the order of its loop.
Exts == <<"jpg", "jpeg", "png", "bmp">>

\* The patterns in the order they are globbed: for every extension first
\* "*{ext}" and then "*{ext.upper()}".
Patterns ==
  [k \in 1..(2 * Len(Exts)) |->
     [ext |-> Exts[(k + 1) \div 2],
      pcase |-> IF k % 2 = 1 THEN "lower" ELSE "upper"]]

\* One Path.glob / Path.rglob call: the entries whose name ends in the
\* pattern's suffix.  glob looks at the folder only, rglob also below it.
\* The match is case-sensitive on POSIX and case-insensitive on Windows
\* (ci), where "*.jpg" and "*.JPG" match the same entries.
Glob(content, pat, recursive, ci) ==
  { f \in content : /\ f.ext = pat.ext
                    /\ (ci \/ f.ecase = pat.pcase)
                    /\ (recursive \/ f.depth = 0) }

\* The orders in which one glob call may list a set of entries (the order
\* is the file system's).
Orders(S) ==
  { s \in [1..Cardinality(S) -> S] :
      \A i, j \in 1..Cardinality(S) : i # j => s[i] # s[j] }

\* image_files after the discovery loop: the lists of the eight glob calls,
\* one after the other.
RECURSIVE DiscoverFrom(_, _, _, _)
DiscoverFrom(k, content, recursive, ci) ==
  IF k > Len(Patterns) THEN { <<>> }
  ELSE { head \o rest :
           head \in Orders(Glob(content, Patterns[k], recursive, ci)),
           rest \in DiscoverFrom(k + 1, content, recursive, ci) }

Discover(content, recursive, ci) == DiscoverFrom(1, content, recursive, ci)

\* A larger folder for the discovery loop on its own: every spelling of a
\* suffix, entries of a subfolder, and a file that is no image.
DiscoveryFiles ==
  { [path |-> "folder/a.jpg", name |-> "a.jpg",
     ext |-> "jpg", ecase |-> "lower", depth |-> 0],
    [path |-> "folder/b.PNG", name |-> "b.PNG",
     ext |-> "png", ecase |-> "upper", depth |-> 0],
    [path |-> "folder/c.Jpg", name |-> "c.Jpg",
     ext |-> "jpg", ecase |-> "mixed", depth |-> 0],
    [path |-> "folder/sub/d.jpeg", name |-> "d.jpeg",
     ext |-> "jpeg", ecase |-> "lower", depth |-> 1],
    [path |-> "folder/sub/e.BMP", name |-> "e.BMP",
     ext |-> "bmp", ecase |-> "upper", depth |-> 1],
    [path |-> "folder/f.txt", name |-> "f.txt",
     ext |-> "txt", ecase |-> "lower", depth |-> 0] }

\* file_path.suffix, str.lower() and get_supported_image_extensions().
Suffix(f) == [ext |-> f.ext, ecase |-> f.ecase]
Lower(sfx) == [sfx EXCEPT !.ecase = "lower"]
get_supported_image_extensions ==
  { [ext |-> Exts[k], ecase |-> "lower"] : k \in 1..Len(Exts) }

\* helpers.is_supported_image.
is_supported_image(f) == Lower(Suffix(f)) \in get_supported_image_extensions

\* str(file_path) and file_path.name.
StrPath(f) == f.path
NameOf(f) == f.name

\* ------------------------------------------------------------ inference
\* What one DeepFace.analyze call does: a list with a face, an empty
\* list, or an exception.
DeepFaceOutcomes == {"face", "empty", "error"}

None == [tag |-> "None"]
Face == [tag |-> "face"]
Raised == [tag |-> "raised"]

\* FaceAnalyzer.analyze_face: the first face, or None for an empty list and
\* for any exception.
analyze_face(d) ==
  IF d = "face" THEN Face ELSE None

\* _process_single_file tagging every record with the first file of the
\* list instead of the file it analysed.
process_single_file_FirstFile(files, i, d) ==
  LET result == analyze_face(d) IN
    IF result.tag = "raised" THEN None
    ELSE IF result.tag # "None"
      THEN [tag |-> "rec", file_path |-> StrPath(files[1]),
            file_name |-> NameOf(files[1]), src |-> i]
      ELSE None

\* BatchProcessor._process_single_file for entry i of image_files: the
\* record tagged with the file's path and name, or None.  src is not a
\* field of the program's record: it remembers which task produced it.
process_single_file(files, i, d) ==
  LET result == analyze_face(d) IN
    IF result.tag = "raised" THEN None
    ELSE IF result.tag # "None"
      THEN [tag |-> "rec", file_path |-> StrPath(files[i]),
            file_name |-> NameOf(files[i]), src |-> i]
      ELSE None

\* ------------------------------------------------------------ state
VARIABLES
  pc,                \* where the dispatch thread is
  caller,            \* "gui" (BatchFrame) or "direct"
  is_processing,     \* BatchFrame.is_processing
  notice,            \* the last dialog the frame showed
  processing,        \* BatchProcessor.processing
  cancel_flag,       \* BatchProcessor.cancel_flag
  progress_callback, \* BatchProcessor.progress_callback is set
  cb_arg,            \* the progress_callback argument of the call
  folder,            \* what folder_path names
  max_workers,       \* the max_workers argument
  image_files,       \* the discovered entries
  processed_count,
  results,
  failed_files,
  cur,               \* the future the loop holds (0: none)
  cj,                \* the cancel loop's position in future_to_file
  task,              \* per future: "pending", "running", "finished", "cancelled"
  fut,               \* per future: its result once finished
  queue,             \* the executor's work queue
  pend,              \* as_completed: futures finished when it was entered
  waiterq,           \* as_completed: futures finished since, in completion order
  yielded,           \* futures as_completed has yielded
  pub_count,         \* how often the progress callback was called
  snapshot,          \* the arguments of its last call
  ret,               \* what process_folder returned
  exit_via,          \* which return statement was taken
  failed_src,        \* per entry of failed_files, the task it came from
  cancelK,           \* (RecordedSpec) tasks completed when cancel_processing
                     \* was first called inside this process_folder call (-1:
                     \* not called)
  cancelReq,         \* (RecordedSpec) cancel_processing was called since
                     \* this run started
  actions,           \* the actions argument: "none" (None), "empty" ([]) or
                     \* "some" (a non-empty list)
  analyzer,          \* per future: the FaceAnalyzer its task analysed with
  done_order,        \* (CompletionSpec) the futures in the order they finished
  at_entry,          \* (CompletionSpec) the futures that were finished when
                     \* as_completed was entered
  d_pc,              \* file discovery alone: "input" or "done"
  d_content,         \* the entries of the folder and its subfolders
  d_recursive,       \* the recursive argument
  d_ci,              \* the platform's glob matches case-insensitively
  d_found,           \* image_files after the discovery loop
  e_pc,              \* an export call: "call" or "done"
  e_call,            \* its arguments
  e_dir,             \* the export directory exists
  e_file,            \* the file it wrote
  e_raised,          \* the exception it raised
  c_pc,              \* the thread that calls Camera.start / stop: where it is
  running,           \* Camera.running
  cap,               \* Camera.cap: "none", "open" or "unopened"
  thread,            \* Camera.thread: a capture thread, or "none"
  frame,             \* Camera.frame: a buffer of the heap, or 0 for None
  lock,              \* Camera.lock: "free" or the thread that holds it
  heap,              \* the image buffers cap.read() has allocated
  n_reads,           \* how many cap.read() calls were made
  t_pc,              \* per capture thread: where it is in _update_frame
  t_buf,             \* per capture thread: the buffer its read fills
  t_val,             \* per capture thread: the image its read delivers
  g_pc,              \* per get_frame caller: where it is
  g_src,             \* per get_frame caller: the buffer it copies
  g_ret,             \* per get_frame caller: the copy (<<>> for None)
  g_quiet,           \* per get_frame caller: the camera was not capturing
                     \* when it called and has not been started since
  c_ret,             \* what the last call of Camera.start returned ("none"
                     \* before the first call and once stop is called)
  stop_entry,        \* while Camera.stop executes: running and cap as they
                     \* were when it was called
  p_pc,              \* a get_available_cameras call: "idle", "open", "opened",
                     \* "unopened" or "done"
  max_cameras,       \* its argument
  p_openable,        \* the device indices cv2.VideoCapture can open
  p_i,               \* the loop variable i
  p_probed,          \* the indices it has tried to open, in order
  available_cameras, \* the list it builds and returns
  p_held,            \* the indices of the devices it holds open
  is_camera_running, \* CameraFrame.is_camera_running
  is_image_frozen,   \* CameraFrame.is_image_frozen
  current_frame,     \* CameraFrame.current_frame is not None
  frozen_frame,      \* CameraFrame.frozen_frame is not None
  visualization_frame, \* CameraFrame.visualization_frame is not None
  analysis_result,   \* CameraFrame.analysis_result: "none" or "record"
  capture_btn,       \* the state of the capture button
  status_label,      \* the text of the status label
  widgets,           \* the other widgets: the capture button's text, the
                     \* states of the save and show-all buttons, the face
                     \* status and what the canvas shows
  v_pc               \* the analysis of a captured frame: "none",
                     \* "analysing", or the callback that waits in the
                     \* event queue ("result", "noface", "error")

vars == <<pc, caller, is_processing, notice, processing, cancel_flag,
          progress_callback, cb_arg, folder, max_workers, image_files,
          processed_count, results, failed_files, cur, cj, task, fut, queue,
          pend, waiterq, yielded, pub_count, snapshot, ret, exit_via,
          failed_src, cancelK, cancelReq, actions, analyzer, done_order,
          at_entry, d_pc,
          d_content, d_recursive, d_ci, d_found, e_pc, e_call, e_dir,
          e_file, e_raised, c_pc, running, cap, thread, frame, lock,
          heap, n_reads, t_pc, t_buf, t_val, g_pc, g_src, g_ret, g_quiet,
          c_ret, stop_entry, p_pc, max_cameras, p_openable, p_i,
          p_probed, available_cameras, p_held, is_camera_running,
          is_image_frozen, current_frame, frozen_frame,
          visualization_frame, analysis_result, capture_btn,
          status_label, widgets, v_pc>>

frameVars == <<caller, is_processing, notice>>
argVars == <<cb_arg, folder, max_workers, actions>>
discVars == <<d_pc, d_content, d_recursive, d_ci, d_found>>
exportVars == <<e_pc, e_call, e_dir, e_file, e_raised>>
cameraVars == <<c_pc, running, cap, thread, frame, lock, heap,
                n_reads, t_pc, t_buf, t_val, g_pc, g_src, g_ret, g_quiet,
                c_ret, stop_entry>>
enumVars == <<p_pc, max_cameras, p_openable, p_i, p_probed,
              available_cameras, p_held>>
viewVars == <<is_camera_running, is_image_frozen, current_frame,
              frozen_frame, visualization_frame, analysis_result,
              capture_btn, status_label, widgets, v_pc>>
sideVars == <<discVars, exportVars, cameraVars, enumVars, viewVars>>
poolVars == <<task, fut, queue>>
iterVars == <<pend, waiterq, yielded>>
accVars == <<processed_count, results, failed_files, failed_src, pub_count,
            snapshot>>
ghostCancel == <<cancelK, cancelReq>>
ghostOrder == <<done_order, at_entry>>
batchVars == <<pc, frameVars, processing, cancel_flag, progress_callback,
               argVars, image_files, accVars, cur, cj, poolVars, iterVars,
               ret, exit_via, ghostCancel, analyzer, ghostOrder>>

total_files == Len(image_files)
Tasks == 1..total_files

NoRet == [results |-> <<>>, failed |-> <<>>]

\* The callback was not called yet.
NoSnapshot ==
  [current |-> -1, total |-> -1, has_info |-> FALSE,
   success |-> 0, failed |-> 0]

\* The futures that exist (none before the submission).
Futures == DOMAIN task
Running == { i \in Futures : task[i] = "running" }
Completed == { i \in Futures : task[i] = "finished" }

\* The run is between its start (the frame marked it, or process_folder
\* was entered) and the return of process_folder.
RunActive == pc \notin {"idle", "returned"}
\* The dispatch thread is inside process_folder.
InCall == pc \notin {"idle", "spawned", "returned"}

BatchInit ==
  /\ pc = "idle"
  /\ caller = "direct"
  /\ is_processing = FALSE
  /\ notice = "none"
  /\ processing = FALSE
  /\ cancel_flag = FALSE
  /\ progress_callback = FALSE
  /\ cb_arg = FALSE
  /\ folder = "dir"
  /\ max_workers = DefaultMaxWorkers
  /\ image_files = <<>>
  /\ processed_count = 0
  /\ results = <<>>
  /\ failed_files = <<>>
  /\ cur = 0
  /\ cj = 0
  /\ task = <<>>
  /\ fut = <<>>
  /\ queue = <<>>
  /\ pend = {}
  /\ waiterq = <<>>
  /\ yielded = {}
  /\ pub_count = 0
  /\ snapshot = NoSnapshot
  /\ ret = NoRet
  /\ exit_via = "none"
  /\ failed_src = <<>>
  /\ cancelK = -1
  /\ cancelReq = FALSE
  /\ analyzer = <<>>
  /\ done_order = <<>>
  /\ at_entry = {}
  /\ actions = "none"

\* No discovery is under way.
DiscoveryIdle ==
  /\ d_pc = "done"
  /\ d_content = {}
  /\ d_recursive = FALSE
  /\ d_ci = FALSE
  /\ d_found = <<>>

\* No file was written.
NoFile == [kind |-> "none"]

\* No export is under way.
ExportIdle ==
  /\ e_pc = "done"
  /\ e_call = [api |-> "none"]
  /\ e_dir = FALSE
  /\ e_file = NoFile
  /\ e_raised = "none"

\* The threads that run _update_frame and the threads that call
\* get_frame.
CaptureThreads == 1..MaxThreads
Getters == 1..MaxGetters

\* A buffer before cap.read() has written it.
BlankBuffer == [k \in 1..FrameCells |-> 0]

\* Camera.stop is not executing.
NoStop == [active |-> FALSE, running |-> FALSE, cap |-> "none"]

\* Camera.__init__.
CameraInit ==
  /\ c_pc = "idle"
  /\ running = FALSE
  /\ cap = "none"
  /\ thread = 0
  /\ frame = 0
  /\ lock = "free"
  /\ heap = [b \in 1..MaxCaptures |-> BlankBuffer]
  /\ n_reads = 0
  /\ t_pc = [t \in CaptureThreads |-> "unborn"]
  /\ t_buf = [t \in CaptureThreads |-> 0]
  /\ t_val = [t \in CaptureThreads |-> 0]
  /\ g_pc = [g \in Getters |-> "idle"]
  /\ g_src = [g \in Getters |-> 0]
  /\ g_ret = [g \in Getters |-> <<>>]
  /\ g_quiet = [g \in Getters |-> FALSE]
  /\ c_ret = "none"
  /\ stop_entry = NoStop

\* No enumeration of the devices is under way.
EnumIdle ==
  /\ p_pc = "idle"
  /\ max_cameras = 0
  /\ p_openable = {}
  /\ p_i = 0
  /\ p_probed = <<>>
  /\ available_cameras = <<>>
  /\ p_held = {}

\* CameraFrame.__init__ and _create_widgets.
ViewInit ==
  /\ is_camera_running = FALSE
  /\ is_image_frozen = FALSE
  /\ current_frame = FALSE
  /\ frozen_frame = FALSE
  /\ visualization_frame = FALSE
  /\ analysis_result = "none"
  /\ capture_btn = "disabled"
  /\ status_label = "Camera not started"
  /\ widgets = [capture_text |-> "Capture & Analyze", save_btn |-> "disabled",
                show_all_btn |-> "disabled", face_status |-> "Not detected",
                canvas |-> "empty"]
  /\ v_pc = "none"

Init ==
  /\ BatchInit
  /\ DiscoveryIdle
  /\ ExportIdle
  /\ CameraInit
  /\ EnumIdle
  /\ ViewInit

\* The locals of process_folder before a call and after its caller has
\* taken the returned pair.
ClearLocals ==
  /\ image_files' = <<>>
  /\ processed_count' = 0
  /\ results' = <<>>
  /\ failed_files' = <<>>
  /\ cur' = 0
  /\ cj' = 0
  /\ task' = <<>>
  /\ fut' = <<>>
  /\ queue' = <<>>
  /\ pend' = {}
  /\ waiterq' = <<>>
  /\ yielded' = {}
  /\ pub_count' = 0
  /\ snapshot' = NoSnapshot
  /\ ret' = NoRet
  /\ exit_via' = "none"
  /\ failed_src' = <<>>
  /\ cancelK' = -1
  /\ cancelReq' = FALSE
  /\ analyzer' = <<>>
  /\ done_order' = <<>>
  /\ at_entry' = {}

\* A call of process_folder with folder kind k, actions a, max_workers w
\* and a progress callback (cb) or none.
FreshCall(k, a, w, cb) ==
  /\ folder' = k
  /\ actions' = a
  /\ max_workers' = w
  /\ cb_arg' = cb
  /\ ClearLocals

\* ------------------------------------------------------------ helpers
\* The FaceAnalyzer objects: the BatchProcessor's own (self.face_analyzer)
\* and the one constructed by the _process_single_file call of task i.
OwnAnalyzer == [kind |-> "own", task |-> 0]
LocalAnalyzer(i) == [kind |-> "local", task |-> i]
NoAnalyzer == [kind |-> "none", task |-> 0]

\* A pool that starts a thread for every work item.
WorkerAvailable_Unbounded(busy, w) == TRUE

\* ThreadPoolExecutor(max_workers=w) has at most w threads, each running
\* one work item at a time: an item starts only while fewer than w run.
WorkerAvailable(busy, w) == busy < w

\* _process_single_file analysing with the BatchProcessor's analyzer.
InferenceContext_Shared(i) == OwnAnalyzer

\* The analyzer _process_single_file calls analyze_face on: the
\* local_analyzer it has just constructed.
InferenceContext(i) == LocalAnalyzer(i)

\* IsValidFolder without the is_dir() test.
IsValidFolder_ExistsOnly(k) == k # "missing"

\* folder_path.exists() and folder_path.is_dir().
IsValidFolder(k) == k = "dir"

\* NoFilesFound with the test for an empty list left out.
NoFilesFound_Never(n) == n < 0

\* total_files == 0.
NoFilesFound(n) == n = 0

\* What a future holds once its task has run.
RunTask(files, i, d) ==
  [kind |-> "result", value |-> process_single_file(files, i, d)]

\* future.result() gave a record (neither None nor an exception).
IsRecord(o) == o.kind = "result" /\ o.value.tag # "None"

\* ResultsAfter putting the newest record first.
ResultsAfter_Prepend(res, o) ==
  IF IsRecord(o) THEN <<o.value>> \o res ELSE res

\* results and failed_files after the loop body handled outcome o of the
\* future of file f.
ResultsAfter(res, o) ==
  IF IsRecord(o) THEN Append(res, o.value) ELSE res

\* FailedAfter that drops a failure instead of recording it.
FailedAfter_Dropped(failed, o, f) == failed

\* FailedAfter that records a failure twice.
FailedAfter_Twice(failed, o, f) ==
  IF IsRecord(o) THEN failed ELSE Append(Append(failed, StrPath(f)), StrPath(f))

FailedAfter(failed, o, f) ==
  IF IsRecord(o) THEN failed ELSE Append(failed, StrPath(f))

\* The first call of the callback: progress_callback(0, total_files, None).
\* It carries no counts (has_info is FALSE; success and failed are unused).
InitialProgress(total) ==
  [current |-> 0, total |-> total, has_info |-> FALSE,
   success |-> 0, failed |-> 0]

\* ProgressInfo published with the count before its increment.
ProgressInfo_StaleCount(count, total, res, failed) ==
  [current |-> count - 1, total |-> total, has_info |-> TRUE,
   success |-> Len(res), failed |-> Len(failed)]

\* The call after a handled completion:
\* progress_callback(processed_count, total_files, progress_info).
ProgressInfo(count, total, res, failed) ==
  [current |-> count, total |-> total, has_info |-> TRUE,
   success |-> Len(res), failed |-> Len(failed)]

\* Future.cancel() that cancels nothing.
FutureCancel_Noop(st) == st

\* Future.cancel(): a pending future becomes cancelled, a running or
\* finished one is left alone.
FutureCancel(st) == IF st = "pending" THEN "cancelled" ELSE st

\* A worker that runs a work item whether or not it was cancelled.
WorkItemStart_Always(st) == "running"

\* What a pool worker does with the work item it took from the queue:
\* a cancelled item is dropped, any other is run.
WorkItemStart(st) == IF st = "cancelled" THEN "cancelled" ELSE "running"

\* self.cancel_flag = True.
SetCancel == cancel_flag' = TRUE

\* What a run remembers of the cancel_processing calls made during it.
RecordCancel ==
  /\ cancelReq' = (cancelReq \/ RunActive)
  /\ cancelK' = IF InCall /\ cancelK = -1
                  THEN Cardinality(Completed) ELSE cancelK

\* What the frame's folder field may hold: nothing, or a path.
FramePaths == FolderKinds \cup {"blank"}

\* The attribute actions, one check box each in the frame.
ActionNames == {"age", "gender", "emotion", "race"}

\* What process_folder and the inference see of an actions list: whether
\* it is empty.  A caller other than the frame may also pass None.
ActionsArg(sel) == IF sel = {} THEN "empty" ELSE "some"
ActionArgs == {"none", "empty", "some"}

\* start_processing's check of the selected actions: at least one.
FrameActionsOk(sel) == sel # {}

\* start_processing's checks of the folder: not blank, exists, is a
\* directory.
FrameFolderOk(k) == k # "blank" /\ k = "dir"

\* ------------------------------------------------------------ the frame
\* BatchFrame.start_processing with a path that is blank, missing or not
\* a directory, or with no action selected: an error dialog, nothing is
\* started.
StartProcessingRejected ==
  /\ pc = "idle"
  /\ ~is_processing
  /\ \E k \in FramePaths, sel \in SUBSET ActionNames :
       ~(FrameFolderOk(k) /\ FrameActionsOk(sel))
  /\ notice' = "input_error"
  /\ UNCHANGED <<pc, caller, is_processing, processing, cancel_flag,
                 progress_callback, argVars, image_files, accVars, cur, cj,
                 poolVars, iterVars, ret, exit_via, ghostCancel, analyzer,
                 ghostOrder, sideVars>>

\* BatchFrame.start_processing with a valid folder: the frame is marked as
\* processing and the thread that will call process_folder (default
\* max_workers, the frame's callback) is started.
StartProcessing ==
  /\ pc = "idle"
  /\ ~is_processing
  /\ is_processing' = TRUE
  /\ caller' = "gui"
  /\ notice' = "none"
  /\ \E k \in FramePaths, sel \in SUBSET ActionNames :
       /\ FrameFolderOk(k)
       /\ FrameActionsOk(sel)
       /\ FreshCall(k, ActionsArg(sel), DefaultMaxWorkers, TRUE)
  /\ pc' = "spawned"
  /\ UNCHANGED <<processing, cancel_flag, progress_callback, sideVars>>

\* The started thread reaches _perform_batch_processing's call.
ThreadEnter ==
  /\ pc = "spawned"
  /\ pc' = "l50"
  /\ UNCHANGED <<frameVars, processing, cancel_flag, progress_callback,
                 argVars, image_files, accVars, cur, cj, poolVars, iterVars,
                 ret, exit_via, ghostCancel, analyzer,
                 ghostOrder, sideVars>>

\* process_folder called by any other caller with actions a and any
\* other arguments.
CallWith(a) ==
  /\ pc = "idle"
  /\ ~is_processing
  /\ \E k \in FolderKinds, w \in 1..MaxWorkers, cb \in BOOLEAN :
       FreshCall(k, a, w, cb)
  /\ caller' = "direct"
  /\ pc' = "l50"
  /\ UNCHANGED <<is_processing, notice, processing, cancel_flag,
                 progress_callback, sideVars>>

\* The call that leaves actions at its default, None.
Call == CallWith("none")

\* The call with any actions argument: None, [] or a non-empty list.
CallActions == \E a \in ActionArgs : CallWith(a)

\* BatchProcessor.cancel_processing, from any thread at any time.
CancelProcessing ==
  /\ SetCancel
  /\ UNCHANGED <<pc, frameVars, processing, progress_callback, argVars,
                 image_files, accVars, cur, cj, poolVars, iterVars, ret,
                 exit_via, ghostCancel, analyzer,
                 ghostOrder, sideVars>>

\* BatchFrame.cancel_processing: only while the frame is processing.
FrameCancel ==
  /\ is_processing
  /\ SetCancel
  /\ UNCHANGED <<pc, frameVars, processing, progress_callback, argVars,
                 image_files, accVars, cur, cj, poolVars, iterVars, ret,
                 exit_via, ghostCancel, analyzer,
                 ghostOrder, sideVars>>

\* The same two operations, with the call remembered by the run.
CancelProcessingRecorded ==
  /\ SetCancel
  /\ RecordCancel
  /\ UNCHANGED <<pc, frameVars, processing, progress_callback, argVars,
                 image_files, accVars, cur, cj, poolVars, iterVars, ret,
                 exit_via, analyzer, ghostOrder, sideVars>>

FrameCancelRecorded ==
  /\ is_processing
  /\ SetCancel
  /\ RecordCancel
  /\ UNCHANGED <<pc, frameVars, processing, progress_callback, argVars,
                 image_files, accVars, cur, cj, poolVars, iterVars, ret,
                 exit_via, analyzer, ghostOrder, sideVars>>

\* _perform_batch_processing stores the result and _processing_complete
\* resets the frame and shows the completion dialog.
FrameComplete ==
  /\ pc = "returned"
  /\ caller = "gui"
  /\ is_processing' = FALSE
  /\ notice' = IF Len(ret.results) > 0 THEN "complete_tally"
                                       ELSE "complete_no_faces"
  /\ pc' = "idle"
  /\ ClearLocals
  /\ UNCHANGED <<caller, processing, cancel_flag, progress_callback, argVars,
                 sideVars>>

\* Any other caller takes the returned pair.
DirectReturn ==
  /\ pc = "returned"
  /\ caller = "direct"
  /\ pc' = "idle"
  /\ ClearLocals
  /\ UNCHANGED <<frameVars, processing, cancel_flag, progress_callback,
                 argVars, sideVars>>

\* ------------------------------------------------------------ process_folder
\* self.processing = True
L50 ==
  /\ pc = "l50"
  /\ processing' = TRUE
  /\ pc' = "l51"
  /\ UNCHANGED <<frameVars, cancel_flag, progress_callback, argVars,
                 image_files, accVars, cur, cj, poolVars, iterVars, ret,
                 exit_via, ghostCancel, analyzer,
                 ghostOrder, sideVars>>

\* self.cancel_flag = False; self.progress_callback = progress_callback
L51 ==
  /\ pc = "l51"
  /\ cancel_flag' = FALSE
  /\ progress_callback' = cb_arg
  /\ pc' = "l57"
  /\ UNCHANGED <<frameVars, processing, argVars, image_files, accVars, cur,
                 cj, poolVars, iterVars, ret, exit_via, ghostCancel, analyzer,
                 ghostOrder, sideVars>>

\* The path is no directory: return the sentinel.
L57Invalid ==
  /\ pc = "l57"
  /\ ~IsValidFolder(folder)
  /\ processing' = FALSE
  /\ ret' = [results |-> <<>>, failed |-> <<"Invalid folder path">>]
  /\ exit_via' = "invalid"
  /\ pc' = "returned"
  /\ UNCHANGED <<frameVars, cancel_flag, progress_callback, argVars,
                 image_files, accVars, cur, cj, poolVars, iterVars,
                 ghostCancel, analyzer,
                 ghostOrder, sideVars>>

\* File discovery over whatever the folder holds.
L61Discover ==
  /\ pc = "l57"
  /\ IsValidFolder(folder)
  /\ \E content \in SUBSET UniverseFiles, recursive \in BOOLEAN,
        ci \in BOOLEAN :
       \E fs \in Discover(content, recursive, ci) :
         /\ Len(fs) <= MaxFiles
         /\ image_files' = fs
  /\ pc' = "l72"
  /\ UNCHANGED <<frameVars, processing, cancel_flag, progress_callback,
                 argVars, accVars, cur, cj, poolVars, iterVars, ret, exit_via,
                 ghostCancel, analyzer,
                 ghostOrder, sideVars>>

\* No file was discovered: return the sentinel.
L73NoFiles ==
  /\ pc = "l72"
  /\ NoFilesFound(total_files)
  /\ processing' = FALSE
  /\ ret' = [results |-> <<>>, failed |-> <<"No image files found">>]
  /\ exit_via' = "nofiles"
  /\ pc' = "returned"
  /\ UNCHANGED <<frameVars, cancel_flag, progress_callback, argVars,
                 image_files, accVars, cur, cj, poolVars, iterVars,
                 ghostCancel, analyzer,
                 ghostOrder, sideVars>>

\* Initialise the progress and the two lists.
L78InitProgress ==
  /\ pc = "l72"
  /\ ~NoFilesFound(total_files)
  /\ processed_count' = 0
  /\ snapshot' = IF progress_callback
                   THEN InitialProgress(total_files) ELSE snapshot
  /\ pub_count' = IF progress_callback THEN pub_count + 1 ELSE pub_count
  /\ results' = <<>>
  /\ failed_files' = <<>>
  /\ failed_src' = <<>>
  /\ pc' = "l86"
  /\ UNCHANGED <<frameVars, processing, cancel_flag, progress_callback,
                 argVars, image_files, cur, cj, poolVars, iterVars, ret,
                 exit_via, ghostCancel, analyzer,
                 ghostOrder, sideVars>>

\* The pool is created and one task per entry of image_files is
\* submitted, in the list's order.
L86Submit ==
  /\ pc = "l86"
  /\ task' = [i \in Tasks |-> "pending"]
  /\ fut' = [i \in Tasks |-> [kind |-> "unset", value |-> None]]
  /\ queue' = [i \in Tasks |-> i]
  /\ analyzer' = [i \in Tasks |-> NoAnalyzer]
  /\ pc' = "l92e"
  /\ UNCHANGED <<frameVars, processing, cancel_flag, progress_callback,
                 argVars, image_files, accVars, cur, cj, iterVars, ret,
                 exit_via, ghostCancel, ghostOrder, sideVars>>

\* as_completed starts: it notes the futures already finished and waits
\* for the others.
Enter ==
  /\ pc = "l92e"
  /\ pend' = Completed
  /\ waiterq' = <<>>
  /\ pc' = "l92"
  /\ UNCHANGED <<frameVars, processing, cancel_flag, progress_callback,
                 argVars, image_files, accVars, cur, cj, poolVars, yielded,
                 ret, exit_via, ghostCancel, analyzer, sideVars>>

L92Enter ==
  /\ Enter
  /\ UNCHANGED ghostOrder

\* as_completed yields future i and the loop tests self.cancel_flag.
Yield(i) ==
  /\ cur' = i
  /\ yielded' = yielded \cup {i}
  /\ IF cancel_flag
       THEN /\ pc' = "l95"
            /\ cj' = 1
       ELSE /\ pc' = "l100"
            /\ UNCHANGED cj
  /\ UNCHANGED <<frameVars, processing, cancel_flag, progress_callback,
                 argVars, image_files, accVars, poolVars, ret, exit_via,
                 ghostCancel, analyzer,
                 ghostOrder, sideVars>>

\* The futures that were finished at the start come first, in any order;
\* then the others as they complete.
L92Next ==
  /\ pc = "l92"
  /\ IF pend # {}
       THEN \E i \in pend :
              /\ pend' = pend \ {i}
              /\ UNCHANGED waiterq
              /\ Yield(i)
       ELSE /\ waiterq # <<>>
            /\ waiterq' = Tail(waiterq)
            /\ UNCHANGED pend
            /\ Yield(Head(waiterq))

\* The loop body for a future the loop was not cancelled on.
L100Handle ==
  /\ pc = "l100"
  /\ LET o == fut[cur]
         res == ResultsAfter(results, o)
         failed == FailedAfter(failed_files, o, image_files[cur])
     IN /\ results' = res
        /\ failed_files' = failed
        /\ failed_src' = IF Len(failed) > Len(failed_files)
                           THEN Append(failed_src, cur) ELSE failed_src
        /\ processed_count' = processed_count + 1
        /\ snapshot' =
             IF progress_callback
               THEN ProgressInfo(processed_count + 1, total_files, res,
                                 failed)
               ELSE snapshot
        /\ pub_count' = IF progress_callback THEN pub_count + 1
                                             ELSE pub_count
  /\ cur' = 0
  /\ pc' = "l92"
  /\ UNCHANGED <<frameVars, processing, cancel_flag, progress_callback,
                 argVars, image_files, cj, poolVars, iterVars, ret, exit_via,
                 ghostCancel, analyzer,
                 ghostOrder, sideVars>>

\* The cancel branch: f.cancel() for the next future of future_to_file.
L95Cancel ==
  /\ pc = "l95"
  /\ cj <= total_files
  /\ task' = [task EXCEPT ![cj] = FutureCancel(task[cj])]
  /\ cj' = cj + 1
  /\ UNCHANGED <<pc, frameVars, processing, cancel_flag, progress_callback,
                 argVars, image_files, accVars, cur, fut, queue,
                 iterVars, ret, exit_via, ghostCancel, analyzer,
                 ghostOrder, sideVars>>

\* self.processing = False and the return value of the cancel branch.
L97Return ==
  /\ pc = "l95"
  /\ cj > total_files
  /\ processing' = FALSE
  /\ ret' = [results |-> results, failed |-> failed_files]
  /\ exit_via' = "cancelled"
  /\ pc' = "shutdown"
  /\ UNCHANGED <<frameVars, cancel_flag, progress_callback, argVars,
                 image_files, accVars, cur, cj, poolVars, iterVars,
                 ghostCancel, analyzer,
                 ghostOrder, sideVars>>

\* Leaving the with block waits for the pool: the queue is drained and
\* the running tasks finish.
Shutdown ==
  /\ pc = "shutdown"
  /\ queue = <<>>
  /\ Running = {}
  /\ pc' = "returned"
  /\ UNCHANGED <<frameVars, processing, cancel_flag, progress_callback,
                 argVars, image_files, accVars, cur, cj, poolVars, iterVars,
                 ret, exit_via, ghostCancel, analyzer,
                 ghostOrder, sideVars>>

\* Every future was yielded: the loop and the with block end, and
\* process_folder returns.
L121Return ==
  /\ pc = "l92"
  /\ pend = {}
  /\ waiterq = <<>>
  /\ yielded = Tasks
  /\ processing' = FALSE
  /\ ret' = [results |-> results, failed |-> failed_files]
  /\ exit_via' = "completed"
  /\ pc' = "returned"
  /\ UNCHANGED <<frameVars, cancel_flag, progress_callback, argVars,
                 image_files, accVars, cur, cj, poolVars, iterVars,
                 ghostCancel, analyzer,
                 ghostOrder, sideVars>>

\* ------------------------------------------------------------ the pool
\* A free worker takes the next work item from the queue.
WorkerTake ==
  /\ queue # <<>>
  /\ WorkerAvailable(Cardinality(Running), max_workers)
  /\ task' = [task EXCEPT ![Head(queue)] = WorkItemStart(task[Head(queue)])]
  /\ analyzer' =
       [analyzer EXCEPT ![Head(queue)] =
          IF WorkItemStart(task[Head(queue)]) = "running"
            THEN InferenceContext(Head(queue)) ELSE @]
  /\ queue' = Tail(queue)
  /\ UNCHANGED <<pc, frameVars, processing, cancel_flag, progress_callback,
                 argVars, image_files, accVars, cur, cj, fut, iterVars,
                 ret, exit_via, ghostCancel, ghostOrder, sideVars>>

\* A running task ends: _process_single_file returns and the future is
\* finished; as_completed's waiter, while it is installed, is told.
Finish(i, d) ==
  /\ fut' = [fut EXCEPT ![i] = RunTask(image_files, i, d)]
  /\ task' = [task EXCEPT ![i] = "finished"]
  /\ waiterq' = IF pc \in {"l92", "l100"}
                  THEN Append(waiterq, i) ELSE waiterq
  /\ UNCHANGED <<pc, frameVars, processing, cancel_flag, progress_callback,
                 argVars, image_files, accVars, cur, cj, queue, pend,
                 yielded, ret, exit_via, ghostCancel, analyzer, sideVars>>

WorkerFinish ==
  \E i \in Running, d \in DeepFaceOutcomes :
    /\ Finish(i, d)
    /\ UNCHANGED ghostOrder

DispatchStep ==
  \/ ThreadEnter
  \/ L50
  \/ L51
  \/ L57Invalid
  \/ L61Discover
  \/ L73NoFiles
  \/ L78InitProgress
  \/ L86Submit
  \/ L92Enter
  \/ L92Next
  \/ L100Handle
  \/ L95Cancel
  \/ L97Return
  \/ Shutdown
  \/ L121Return

WorkerStep == WorkerTake \/ WorkerFinish

CallerStep ==
  \/ StartProcessingRejected
  \/ StartProcessing
  \/ Call
  \/ FrameComplete
  \/ DirectReturn

Next ==
  \/ CallerStep
  \/ CancelProcessing
  \/ FrameCancel
  \/ DispatchStep
  \/ WorkerStep

Spec == Init /\ [][Next]_vars

\* The same program with the cancel_processing calls of a run recorded in
\* cancelK and cancelReq.
NextRecorded ==
  \/ CallerStep
  \/ CancelProcessingRecorded
  \/ FrameCancelRecorded
  \/ DispatchStep
  \/ WorkerStep

RecordedSpec == Init /\ [][NextRecorded]_vars

\* ------------------------------------------------------------ export
\* The records a result set may hold and the paths a failure list may
\* hold; a call exports a prefix of each.
SampleRecords ==
  << [age |-> "31", file_path |-> "folder/a.jpg", file_name |-> "a.jpg"],
     [age |-> "47", file_path |-> "folder/b.PNG", file_name |-> "b.PNG"],
     [age |-> "31", file_path |-> "folder/sub/a.bmp", file_name |-> "a.bmp"],
     [age |-> "25", file_path |-> "folder/c.jpg", file_name |-> "c.jpg"] >>
SamplePaths ==
  << "folder/x.jpg", "folder/y.jpg", "folder/z.jpg", "folder/w.jpg" >>

Prefixes(seq, n) ==
  { SubSeq(seq, 1, k) : k \in 0..(IF n < Len(seq) THEN n ELSE Len(seq)) }

\* The failed_files argument: None (the default) or a list.
FailedArgs ==
  { [given |-> FALSE, list |-> <<>>] }
    \cup { [given |-> TRUE, list |-> l] :
             l \in Prefixes(SamplePaths, MaxFailed) }

\* The format strings callers pass, and str.lower() of each.
Formats == {"csv", "CSV", "Csv", "json", "JSON", "xml", "txt", ""}
StrLower(fmt) ==
  CASE fmt \in {"CSV", "Csv"} -> "csv"
    [] fmt = "JSON" -> "json"
    [] OTHER -> fmt

ExportApis == {"Exporter", "BatchProcessor"}

\* The arguments of one export call.
ExportCalls ==
  [api : ExportApis,
   results : Prefixes(SampleRecords, MaxRecords),
   format : Formats,
   include_failed : BOOLEAN,
   failed_files : FailedArgs]

\* results.empty, and the truth value of "include_failed and failed_files".
Empty(res) == Len(res) = 0
WithFailed_Always(incl, failed) == failed.list # <<>>
WithFailed(incl, failed) ==
  incl /\ failed.given /\ failed.list # <<>>

\* DataFrame.to_csv(index=False): the header and one row per record.
Columns == <<"age", "file_path", "file_name">>
RowOf(r) == [k \in 1..Len(Columns) |-> r[Columns[k]]]
to_csv(res) ==
  <<Columns>> \o [k \in 1..Len(res) |-> RowOf(res[k])]

\* writer.writerow(["Failed Files"]) and one writerow per failed file.
FailedRows(failed) ==
  << <<"Failed Files">> >>
    \o [k \in 1..Len(failed.list) |-> <<failed.list[k]>>]

\* The failures section without the blank row before it.
CsvRows_NoBlankRow(res, incl, failed) ==
  IF ~Empty(res)
    THEN to_csv(res)
           \o (IF WithFailed(incl, failed)
                 THEN FailedRows(failed) ELSE <<>>)
  ELSE IF WithFailed(incl, failed)
    THEN FailedRows(failed)
  ELSE << <<"No results found">> >>

\* The rows of the CSV file: Exporter.export_to_csv lines 55-75, and the
\* same statements in BatchProcessor.export_results lines 191-211.
CsvRows(res, incl, failed) ==
  IF ~Empty(res)
    THEN to_csv(res)
           \o (IF WithFailed(incl, failed)
                 THEN << <<>> >> \o FailedRows(failed) ELSE <<>>)
  ELSE IF WithFailed(incl, failed)
    THEN FailedRows(failed)
  ELSE << <<"No results found">> >>

\* The keys of export_data and the value of each: Exporter.export_to_json
\* lines 106-114, and the same statements in BatchProcessor.export_results
\* lines 216-224.
JsonKeys(res, incl, failed) ==
  LET data == (IF ~Empty(res) THEN {"results"} ELSE {})
                \cup (IF WithFailed(incl, failed)
                        THEN {"failed_files"} ELSE {})
  IN IF data = {} THEN {"message"} ELSE data

JsonObject(res, incl, failed) ==
  [k \in JsonKeys(res, incl, failed) |->
     IF k = "results" THEN [tag |-> "records", items |-> res]
     ELSE IF k = "failed_files"
       THEN [tag |-> "paths", items |-> failed.list]
     ELSE [tag |-> "string", items |-> <<"No results found">>]]

CsvFile(c) ==
  [kind |-> "csv",
   rows |-> CsvRows(c.results, c.include_failed, c.failed_files)]
JsonFile(c) ==
  [kind |-> "json",
   object |-> JsonObject(c.results, c.include_failed, c.failed_files)]

\* An export that writes CSV when it does not know the format.
FormatBranch_DefaultCsv(fmt) ==
  IF StrLower(fmt) = "json" THEN "json" ELSE "csv"

\* The if / elif / else on format.lower() of both export_results methods.
FormatBranch(fmt) ==
  IF StrLower(fmt) = "csv" THEN "csv"
  ELSE IF StrLower(fmt) = "json" THEN "json"
  ELSE "raise"

\* What the branch taken writes and raises.
Written(c) ==
  CASE FormatBranch(c.format) = "csv" -> CsvFile(c)
    [] FormatBranch(c.format) = "json" -> JsonFile(c)
    [] OTHER -> NoFile
RaisedBy(c) ==
  IF FormatBranch(c.format) = "raise" THEN "ValueError" ELSE "none"

\* Exporter.export_results: the format is tested first; only the branch
\* taken (export_to_csv, export_to_json) makes sure the directory exists.
ExporterExport ==
  /\ e_pc = "call"
  /\ e_call.api = "Exporter"
  /\ e_dir' = (e_dir \/ FormatBranch(e_call.format) # "raise")
  /\ e_file' = Written(e_call)
  /\ e_raised' = RaisedBy(e_call)
  /\ e_pc' = "done"
  /\ UNCHANGED <<e_call, batchVars, discVars, cameraVars, enumVars, viewVars>>

\* BatchProcessor.export_results: ensure_directory_exists(export_path)
\* comes before the test of the format.
BatchProcessorExport ==
  /\ e_pc = "call"
  /\ e_call.api = "BatchProcessor"
  /\ e_dir' = TRUE
  /\ e_file' = Written(e_call)
  /\ e_raised' = RaisedBy(e_call)
  /\ e_pc' = "done"
  /\ UNCHANGED <<e_call, batchVars, discVars, cameraVars, enumVars, viewVars>>

\* One export call with any arguments, into a directory that exists or
\* does not exist yet.
ExportInit ==
  /\ BatchInit
  /\ ViewInit
  /\ EnumIdle
  /\ DiscoveryIdle
  /\ CameraInit
  /\ e_pc = "call"
  /\ e_call \in ExportCalls
  /\ e_dir \in BOOLEAN
  /\ e_file = NoFile
  /\ e_raised = "none"

ExportNext == ExporterExport \/ BatchProcessorExport

ExportSpec == ExportInit /\ [][ExportNext]_vars

\* ------------------------------------------------------------ camera
otherVars == <<batchVars, discVars, exportVars, enumVars, viewVars>>

\* The capture threads there can be.
LoopThreads == DOMAIN t_pc

\* The camera is not capturing: it was never started, or stop has returned.
NotCapturing == c_pc = "idle" /\ ~running

\* A capture thread that does not exist (any more).
Gone(t) == t_pc[t] \in {"unborn", "dead"}

\* Camera.start while the camera runs: nothing to do.
StartAlreadyRunning ==
  /\ c_pc = "idle"
  /\ running
  /\ c_ret' = "True"
  /\ UNCHANGED <<c_pc, running, cap, thread, frame, lock, heap, n_reads,
                 t_pc, t_buf, t_val, g_pc, g_src, g_ret, g_quiet,
                 stop_entry, otherVars>>

\* Camera.start when the device cannot be opened: the VideoCapture object
\* stays in self.cap and False is returned.
StartOpenFailed ==
  /\ c_pc = "idle"
  /\ ~running
  /\ cap' = "unopened"
  /\ c_ret' = "False"
  /\ UNCHANGED <<c_pc, running, thread, frame, lock, heap, n_reads, t_pc,
                 t_buf, t_val, g_pc, g_src, g_ret, g_quiet,
                 stop_entry, otherVars>>

\* Camera.start when opening the device raises: the except branch.
StartRaised ==
  /\ c_pc = "idle"
  /\ ~running
  /\ cap' = "none"
  /\ c_ret' = "False"
  /\ UNCHANGED <<c_pc, running, thread, frame, lock, heap, n_reads, t_pc,
                 t_buf, t_val, g_pc, g_src, g_ret, g_quiet,
                 stop_entry, otherVars>>

\* Camera.start: the device opens, running is set and the capture thread
\* is started.
StartOk ==
  /\ c_pc = "idle"
  /\ ~running
  /\ \E t \in LoopThreads :
       /\ Gone(t)
       /\ \A u \in LoopThreads : Gone(u) => t <= u
       /\ thread' = t
       /\ t_pc' = [t_pc EXCEPT ![t] = "loop"]
  /\ cap' = "open"
  /\ running' = TRUE
  /\ g_quiet' = [g \in Getters |-> FALSE]
  /\ c_ret' = "True"
  /\ UNCHANGED <<c_pc, frame, lock, heap, n_reads, t_buf, t_val, g_pc,
                 g_src, g_ret,
                 stop_entry, otherVars>>

\* Camera.stop, line 68: self.running = False.
StopFlag ==
  /\ c_pc = "idle"
  /\ running' = FALSE
  /\ c_pc' = "join"
  /\ c_ret' = "none"
  /\ stop_entry' = [active |-> TRUE, running |-> running, cap |-> cap]
  /\ UNCHANGED <<cap, thread, frame, lock, heap, n_reads, t_pc,
                 t_buf, t_val, g_pc, g_src, g_ret, g_quiet,
                 otherVars>>

\* Lines 69-72: there is no thread, or the thread has ended.
StopJoined ==
  /\ c_pc = "join"
  /\ IF thread = 0 THEN TRUE ELSE Gone(thread)
  /\ thread' = 0
  /\ c_pc' = "release"
  /\ UNCHANGED <<running, cap, frame, lock, heap, n_reads, t_pc,
                 t_buf, t_val, g_pc, g_src, g_ret, g_quiet,
                 c_ret, stop_entry, otherVars>>

\* Lines 69-72: join(timeout=1.0) gives up on a thread that is still in
\* its loop.
StopJoinTimeout ==
  /\ c_pc = "join"
  /\ thread # 0
  /\ ~Gone(thread)
  /\ thread' = 0
  /\ c_pc' = "release"
  /\ UNCHANGED <<running, cap, frame, lock, heap, n_reads, t_pc,
                 t_buf, t_val, g_pc, g_src, g_ret, g_quiet,
                 c_ret, stop_entry, otherVars>>

\* Lines 74-76: the device is released.  self.frame is left as it is.
StopRelease ==
  /\ c_pc = "release"
  /\ cap' = "none"
  /\ c_pc' = "idle"
  /\ stop_entry' = NoStop
  /\ UNCHANGED <<running, thread, frame, lock, heap, n_reads, t_pc,
                 t_buf, t_val, g_pc, g_src, g_ret, g_quiet,
                 c_ret, otherVars>>

\* A loop that does not look at the flag.
LoopCondition_Forever(flag) == TRUE

\* Line 82: the loop goes on while self.running is true.
LoopCondition(flag) == flag

\* _update_frame, line 82: while self.running.
CapLoop(t) ==
  /\ t_pc[t] = "loop"
  /\ t_pc' = [t_pc EXCEPT ![t] =
                IF LoopCondition(running) THEN "check" ELSE "dead"]
  /\ UNCHANGED <<c_pc, running, cap, thread, frame, lock, heap,
                 n_reads, t_buf, t_val, g_pc, g_src, g_ret, g_quiet,
                 c_ret, stop_entry, otherVars>>

\* Line 83: is there an open device?  If not, sleep and loop.
CapCheck(t) ==
  /\ t_pc[t] = "check"
  /\ t_pc' = [t_pc EXCEPT ![t] = IF cap = "open" THEN "read" ELSE "loop"]
  /\ UNCHANGED <<c_pc, running, cap, thread, frame, lock, heap,
                 n_reads, t_buf, t_val, g_pc, g_src, g_ret, g_quiet,
                 c_ret, stop_entry, otherVars>>

\* cap.read() filling the buffer self.frame refers to.
ReadTarget_InPlace(published, fresh) ==
  IF published # 0 THEN published ELSE fresh

\* The buffer cap.read() fills: a new array for every call.
ReadTarget(published, fresh) == fresh

\* Line 84 without a frame: stop has set self.cap to None (the thread
\* ends with an AttributeError), or the read fails (ret is False).
CapReadNothing(t) ==
  /\ t_pc[t] = "read"
  /\ t_pc' = [t_pc EXCEPT ![t] = IF cap = "none" THEN "dead" ELSE "loop"]
  /\ UNCHANGED <<c_pc, running, cap, thread, frame, lock, heap,
                 n_reads, t_buf, t_val, g_pc, g_src, g_ret, g_quiet,
                 c_ret, stop_entry, otherVars>>

\* Line 84 with a frame: cap.read() starts to write the next image.
CapRead(t) ==
  /\ t_pc[t] = "read"
  /\ cap = "open"
  /\ n_reads < MaxCaptures
  /\ n_reads' = n_reads + 1
  /\ t_val' = [t_val EXCEPT ![t] = n_reads + 1]
  /\ t_buf' = [t_buf EXCEPT ![t] = ReadTarget(frame, n_reads + 1)]
  /\ t_pc' = [t_pc EXCEPT ![t] = "fill"]
  /\ UNCHANGED <<c_pc, running, cap, thread, frame, lock, heap,
                 g_pc, g_src, g_ret, g_quiet,
                 c_ret, stop_entry, otherVars>>

\* The first cell of thread t's buffer that its read has not written yet.
NextCell(t) ==
  CHOOSE k \in 1..FrameCells :
    /\ heap[t_buf[t]][k] # t_val[t]
    /\ \A j \in 1..(k - 1) : heap[t_buf[t]][j] = t_val[t]

\* cap.read() writes the image into its buffer, cell after cell.
CapFill(t) ==
  /\ t_pc[t] = "fill"
  /\ heap' = [heap EXCEPT ![t_buf[t]][NextCell(t)] = t_val[t]]
  /\ t_pc' = [t_pc EXCEPT ![t] =
                IF NextCell(t) = FrameCells THEN "store" ELSE "fill"]
  /\ UNCHANGED <<c_pc, running, cap, thread, frame, lock, n_reads,
                 t_buf, t_val, g_pc, g_src, g_ret, g_quiet,
                 c_ret, stop_entry, otherVars>>

\* Lines 86-87: with self.lock: self.frame = frame.
CapStore(t) ==
  /\ t_pc[t] = "store"
  /\ lock = "free"
  /\ frame' = t_buf[t]
  /\ t_buf' = [t_buf EXCEPT ![t] = 0]
  /\ t_val' = [t_val EXCEPT ![t] = 0]
  /\ t_pc' = [t_pc EXCEPT ![t] = "loop"]
  /\ UNCHANGED <<c_pc, running, cap, thread, lock, heap, n_reads, g_pc,
                 g_src, g_ret, g_quiet,
                 c_ret, stop_entry, otherVars>>

\* get_frame, line 97: the lock is taken and self.frame is looked at.
GetAcquire(g) ==
  /\ g_pc[g] = "idle"
  /\ lock = "free"
  /\ lock' = "getter"
  /\ g_src' = [g_src EXCEPT ![g] = frame]
  /\ g_ret' = [g_ret EXCEPT ![g] = <<>>]
  /\ g_quiet' = [g_quiet EXCEPT ![g] = NotCapturing]
  /\ g_pc' = [g_pc EXCEPT ![g] = IF frame = 0 THEN "release" ELSE "copy"]
  /\ UNCHANGED <<c_pc, running, cap, thread, frame, heap, n_reads,
                 t_pc, t_buf, t_val,
                 c_ret, stop_entry, otherVars>>

\* Line 99: self.frame.copy(), cell after cell.
GetCopy(g) ==
  /\ g_pc[g] = "copy"
  /\ g_ret' = [g_ret EXCEPT ![g] = Append(@, heap[g_src[g]][Len(@) + 1])]
  /\ g_pc' = [g_pc EXCEPT ![g] =
                IF Len(g_ret[g]) + 1 = FrameCells THEN "release" ELSE "copy"]
  /\ UNCHANGED <<c_pc, running, cap, thread, frame, lock, heap,
                 n_reads, t_pc, t_buf, t_val, g_src, g_quiet,
                 c_ret, stop_entry, otherVars>>

\* get_frame returning self.frame itself.
CopyIdentity_Same(src) == src

\* Line 99: the array frame.copy() returns is a new one (0), not the array
\* src that self.frame refers to.
CopyIdentity(src) == 0

\* The with block ends and get_frame returns the copy, or None.
GetRelease(g) ==
  /\ g_pc[g] = "release"
  /\ lock' = "free"
  /\ g_src' = [g_src EXCEPT ![g] = CopyIdentity(@)]
  /\ g_pc' = [g_pc EXCEPT ![g] = "returned"]
  /\ UNCHANGED <<c_pc, running, cap, thread, frame, heap, n_reads,
                 t_pc, t_buf, t_val, g_ret, g_quiet,
                 c_ret, stop_entry, otherVars>>

\* The caller has taken the returned value.
GetDone(g) ==
  /\ g_pc[g] = "returned"
  /\ g_pc' = [g_pc EXCEPT ![g] = "idle"]
  /\ g_ret' = [g_ret EXCEPT ![g] = <<>>]
  /\ g_quiet' = [g_quiet EXCEPT ![g] = FALSE]
  /\ UNCHANGED <<c_pc, running, cap, thread, frame, lock, heap,
                 n_reads, t_pc, t_buf, t_val, g_src,
                 c_ret, stop_entry, otherVars>>

CameraNext ==
  \/ StartAlreadyRunning
  \/ StartOpenFailed
  \/ StartRaised
  \/ StartOk
  \/ StopFlag
  \/ StopJoined
  \/ StopJoinTimeout
  \/ StopRelease
  \/ \E t \in LoopThreads :
       \/ CapLoop(t)
       \/ CapCheck(t)
       \/ CapReadNothing(t)
       \/ CapRead(t)
       \/ CapFill(t)
       \/ CapStore(t)
  \/ \E g \in Getters :
       \/ GetAcquire(g)
       \/ GetCopy(g)
       \/ GetRelease(g)
       \/ GetDone(g)

CameraSpec == Init /\ [][CameraNext]_vars

\* The value a caller writes into a frame it was given; no read produces
\* it.
Scribble == MaxCaptures + 1

\* The frame getter g was given, as its caller sees it now.
Held(g) == IF g_src[g] = 0 THEN g_ret[g] ELSE heap[g_src[g]]

\* The caller of get_frame or capture_image draws on the frame it was
\* given (once per frame).
GetMutate(g) ==
  /\ g_pc[g] = "returned"
  /\ g_ret[g] # <<>>
  /\ Held(g)[1] # Scribble
  /\ IF g_src[g] = 0
       THEN /\ g_ret' = [g_ret EXCEPT ![g][1] = Scribble]
            /\ UNCHANGED heap
       ELSE /\ heap' = [heap EXCEPT ![g_src[g]][1] = Scribble]
            /\ UNCHANGED g_ret
  /\ UNCHANGED <<c_pc, running, cap, thread, frame, lock, n_reads,
                 t_pc, t_buf, t_val, g_pc, g_src, g_quiet,
                 c_ret, stop_entry, otherVars>>

\* A started camera, its capture loop, and callers of get_frame that
\* change the frames they are given.
CopyNext ==
  \/ StartOk
  \/ \E t \in LoopThreads :
       \/ CapLoop(t)
       \/ CapCheck(t)
       \/ CapReadNothing(t)
       \/ CapRead(t)
       \/ CapFill(t)
       \/ CapStore(t)
  \/ \E g \in Getters :
       \/ GetAcquire(g)
       \/ GetCopy(g)
       \/ GetRelease(g)
       \/ GetDone(g)
       \/ GetMutate(g)

CopySpec == Init /\ [][CopyNext]_vars

\* A camera whose start and stop are called in any order, with room for a
\* capture thread that outlives the stop that gave up joining it.
LifecycleInit ==
  /\ BatchInit
  /\ ViewInit
  /\ EnumIdle
  /\ DiscoveryIdle
  /\ ExportIdle
  /\ c_pc = "idle"
  /\ running = FALSE
  /\ cap = "none"
  /\ thread = 0
  /\ frame = 0
  /\ lock = "free"
  /\ heap = [b \in 1..MaxCaptures |-> BlankBuffer]
  /\ n_reads = 0
  /\ t_pc = [t \in 1..MaxLoops |-> "unborn"]
  /\ t_buf = [t \in 1..MaxLoops |-> 0]
  /\ t_val = [t \in 1..MaxLoops |-> 0]
  /\ g_pc = [g \in Getters |-> "idle"]
  /\ g_src = [g \in Getters |-> 0]
  /\ g_ret = [g \in Getters |-> <<>>]
  /\ g_quiet = [g \in Getters |-> FALSE]
  /\ c_ret = "none"
  /\ stop_entry = NoStop

\* A step of capture thread t.
LoopStepOf(t) ==
  \/ CapLoop(t)
  \/ CapCheck(t)
  \/ CapReadNothing(t)
  \/ CapRead(t)
  \/ CapFill(t)
  \/ CapStore(t)

\* A step of a capture thread.
LoopStep == \E t \in LoopThreads : LoopStepOf(t)

LifecycleNext ==
  \/ StartAlreadyRunning
  \/ StartOpenFailed
  \/ StartRaised
  \/ StartOk
  \/ StopFlag
  \/ StopJoined
  \/ StopJoinTimeout
  \/ StopRelease
  \/ LoopStep

LifecycleSpec == LifecycleInit /\ [][LifecycleNext]_vars

\* Every capture thread is scheduled again and again, and its cap.read()
\* returns.
FairLifecycleSpec ==
  LifecycleSpec /\ \A t \in 1..MaxLoops : WF_vars(LoopStepOf(t))

\* ------------------------------------------------------------ enumeration
instanceVars == <<batchVars, discVars, exportVars, cameraVars, viewVars>>

\* Without the release of line 200.
AfterRelease_Leak(held, i) == held

\* Line 200: cap.release().
AfterRelease(held, i) == held \ {i}

\* Lines 177-178: range(max_cameras) gives another index and
\* cv2.VideoCapture(i) tries to open it.
ProbeOpen ==
  /\ p_pc = "open"
  /\ p_i < max_cameras
  /\ p_probed' = Append(p_probed, p_i)
  /\ p_held' = IF p_i \in p_openable THEN p_held \cup {p_i} ELSE p_held
  /\ p_pc' = IF p_i \in p_openable THEN "opened" ELSE "unopened"
  /\ UNCHANGED <<max_cameras, p_openable, p_i, available_cameras,
                 instanceVars>>

\* Lines 179-200: the device is open; it is listed and released.
ProbeOpened ==
  /\ p_pc = "opened"
  /\ available_cameras' = Append(available_cameras, [id |-> p_i])
  /\ p_held' = AfterRelease(p_held, p_i)
  /\ p_i' = p_i + 1
  /\ p_pc' = "open"
  /\ UNCHANGED <<max_cameras, p_openable, p_probed, instanceVars>>

\* Lines 201-204: the device is not open; the loop ends unless i is 0.
ProbeUnopened ==
  /\ p_pc = "unopened"
  /\ p_i' = p_i + 1
  /\ p_pc' = IF p_i > 0 THEN "done" ELSE "open"
  /\ UNCHANGED <<max_cameras, p_openable, p_probed, available_cameras,
                 p_held, instanceVars>>

\* Line 177: range(max_cameras) is exhausted; line 206 returns the list.
ProbeEnd ==
  /\ p_pc = "open"
  /\ p_i >= max_cameras
  /\ p_pc' = "done"
  /\ UNCHANGED <<max_cameras, p_openable, p_i, p_probed, available_cameras,
                 p_held, instanceVars>>

\* One call of get_available_cameras, with any argument and any set of
\* devices that open.
EnumInit ==
  /\ BatchInit
  /\ ViewInit
  /\ DiscoveryIdle
  /\ ExportIdle
  /\ CameraInit
  /\ p_pc = "open"
  /\ max_cameras \in 0..MaxIndex
  /\ p_openable \in SUBSET (0..(MaxIndex - 1))
  /\ p_i = 0
  /\ p_probed = <<>>
  /\ available_cameras = <<>>
  /\ p_held = {}

EnumNext == ProbeOpen \/ ProbeOpened \/ ProbeUnopened \/ ProbeEnd

EnumSpec == EnumInit /\ [][EnumNext]_vars

\* ------------------------------------------------------------ camera frame
restVars == <<batchVars, discVars, exportVars, cameraVars, enumVars>>

\* What self.camera.start() can return to the frame.
StartResults == BOOLEAN

\* The outcomes of _perform_analysis: analyze_face returns a record, it
\* returns None, or a statement of _perform_analysis raises.
AnalysisOutcomes == {"result", "noface", "error"}

\* start_camera: a new Camera is started; when start returns False only
\* an error dialog is shown.
ViewStartCamera ==
  /\ ~is_camera_running
  /\ \E ok \in StartResults :
       /\ is_camera_running' = ok
       /\ capture_btn' = IF ok THEN "normal" ELSE capture_btn
       /\ status_label' = IF ok THEN "Camera running" ELSE status_label
  /\ UNCHANGED <<is_image_frozen, current_frame, frozen_frame,
                 visualization_frame, analysis_result, v_pc, widgets, restVars>>

\* stop_camera: the update thread and the camera are stopped, the buttons
\* are disabled and the canvas is cleared.
ViewStopCamera ==
  /\ is_camera_running
  /\ is_camera_running' = FALSE
  /\ capture_btn' = "disabled"
  /\ status_label' = "Camera stopped"
  /\ widgets' = [widgets EXCEPT !.save_btn = "disabled", !.canvas = "empty"]
  /\ UNCHANGED <<is_image_frozen, current_frame, frozen_frame,
                 visualization_frame, analysis_result, v_pc, restVars>>

\* _update_frame, one turn that shows a frame: the camera runs, no image
\* is frozen and get_frame returned a frame.
ViewUpdateFrame ==
  /\ is_camera_running
  /\ ~is_image_frozen
  /\ current_frame' = TRUE
  /\ widgets' = [widgets EXCEPT !.canvas = "live"]
  /\ UNCHANGED <<is_camera_running, is_image_frozen, frozen_frame,
                 visualization_frame, analysis_result, capture_btn,
                 status_label, v_pc, restVars>>

\* capture_and_analyze with a result held: _clear_analysis.
ViewClear ==
  /\ capture_btn = "normal"
  /\ analysis_result # "none"
  /\ analysis_result' = "none"
  /\ frozen_frame' = FALSE
  /\ visualization_frame' = FALSE
  /\ is_image_frozen' = FALSE
  /\ status_label' = "Camera running"
  /\ widgets' = [widgets EXCEPT !.face_status = "Not detected",
                                !.capture_text = "Capture & Analyze",
                                !.save_btn = "disabled",
                                !.show_all_btn = "disabled"]
  /\ UNCHANGED <<is_camera_running, current_frame, capture_btn, v_pc,
                 restVars>>

\* capture_and_analyze without a result and without a running camera or
\* a frame: it returns at line 426.
ViewCaptureNothing ==
  /\ capture_btn = "normal"
  /\ analysis_result = "none"
  /\ ~is_camera_running \/ ~current_frame
  /\ UNCHANGED <<viewVars, restVars>>

\* capture_and_analyze, lines 428-437: the current frame is frozen and the
\* analysis thread is started.
ViewCapture ==
  /\ capture_btn = "normal"
  /\ analysis_result = "none"
  /\ is_camera_running
  /\ current_frame
  /\ frozen_frame' = TRUE
  /\ is_image_frozen' = TRUE
  /\ capture_btn' = "disabled"
  /\ status_label' = "Analyzing face..."
  /\ v_pc' = "analysing"
  /\ UNCHANGED <<is_camera_running, current_frame, visualization_frame,
                 analysis_result, widgets, restVars>>

\* _perform_analysis: the analysis ends and the callback that shows its
\* outcome is put into the event queue.
ViewPerformAnalysis ==
  /\ v_pc = "analysing"
  /\ \E o \in AnalysisOutcomes :
       /\ v_pc' = o
       /\ visualization_frame' \in
            IF o = "error" THEN {visualization_frame, TRUE} ELSE {TRUE}
       /\ widgets' \in
            IF o = "noface"
              THEN {widgets}
              ELSE {widgets, [widgets EXCEPT !.canvas = "annotated"]}
  /\ UNCHANGED <<is_camera_running, is_image_frozen, current_frame,
                 frozen_frame, analysis_result, capture_btn, status_label,
                 restVars>>

\* _update_results: the result (a record, or None) is stored and the
\* capture button is enabled again.
ViewUpdateResults ==
  /\ v_pc \in {"result", "noface"}
  /\ analysis_result' = IF v_pc = "result" THEN "record" ELSE "none"
  /\ capture_btn' = "normal"
  /\ status_label' = "Analysis complete"
  /\ v_pc' = "none"
  /\ widgets' =
       IF v_pc = "result"
         THEN [widgets EXCEPT !.face_status = "Detected",
                              !.capture_text = "Clear Image",
                              !.save_btn = "normal",
                              !.show_all_btn = "normal"]
         ELSE [widgets EXCEPT !.face_status = "Not detected",
                              !.save_btn = "disabled",
                              !.show_all_btn = "disabled"]
  /\ UNCHANGED <<is_camera_running, is_image_frozen, current_frame,
                 frozen_frame, visualization_frame, restVars>>

\* _handle_analysis_error: the error is shown and the capture button is
\* enabled again.
ViewHandleAnalysisError ==
  /\ v_pc = "error"
  /\ capture_btn' = "normal"
  /\ status_label' = "Analysis failed"
  /\ v_pc' = "none"
  /\ widgets' = [widgets EXCEPT !.face_status = "Error"]
  /\ UNCHANGED <<is_camera_running, is_image_frozen, current_frame,
                 frozen_frame, visualization_frame, analysis_result,
                 restVars>>

ViewNext ==
  \/ ViewStartCamera
  \/ ViewStopCamera
  \/ ViewUpdateFrame
  \/ ViewClear
  \/ ViewCaptureNothing
  \/ ViewCapture
  \/ ViewPerformAnalysis
  \/ ViewUpdateResults
  \/ ViewHandleAnalysisError

ViewSpec == Init /\ [][ViewNext]_vars

\* ------------------------------------------------------------ discovery
\* The discovery loop of process_folder on its own, over any folder.
DiscoveryInit ==
  /\ BatchInit
  /\ ViewInit
  /\ EnumIdle
  /\ ExportIdle
  /\ CameraInit
  /\ d_pc = "input"
  /\ d_content \in SUBSET DiscoveryFiles
  /\ d_recursive \in BOOLEAN
  /\ d_ci \in BOOLEAN
  /\ d_found = <<>>

Discovery ==
  /\ d_pc = "input"
  /\ d_found' \in Discover(d_content, d_recursive, d_ci)
  /\ d_pc' = "done"
  /\ UNCHANGED <<d_content, d_recursive, d_ci>>
  /\ UNCHANGED <<batchVars, exportVars, cameraVars, enumVars, viewVars>>

DiscoverySpec == DiscoveryInit /\ [][Discovery]_vars

\* The same program with callers that pass any actions argument.
NextActions ==
  \/ StartProcessingRejected
  \/ StartProcessing
  \/ CallActions
  \/ FrameComplete
  \/ DirectReturn
  \/ CancelProcessing
  \/ FrameCancel
  \/ DispatchStep
  \/ WorkerStep

ActionsSpec == Init /\ [][NextActions]_vars

\* A running task ends, with the order of the completions recorded.
WorkerFinishRecorded ==
  \E i \in Running, d \in DeepFaceOutcomes :
    /\ Finish(i, d)
    /\ done_order' = Append(done_order, i)
    /\ UNCHANGED at_entry

\* as_completed starts, with the futures it found finished recorded.
L92EnterRecorded ==
  /\ Enter
  /\ at_entry' = Completed
  /\ UNCHANGED done_order

NextCompletion ==
  \/ CallerStep
  \/ CancelProcessing
  \/ FrameCancel
  \/ ThreadEnter
  \/ L50
  \/ L51
  \/ L57Invalid
  \/ L61Discover
  \/ L73NoFiles
  \/ L78InitProgress
  \/ L86Submit
  \/ L92EnterRecorded
  \/ L92Next
  \/ L100Handle
  \/ L95Cancel
  \/ L97Return
  \/ Shutdown
  \/ L121Return
  \/ WorkerTake
  \/ WorkerFinishRecorded

CompletionSpec == Init /\ [][NextCompletion]_vars

\* The pool's threads and the dispatch thread keep running, and every
\* inference call ends.
FairSpec == Spec /\ WF_vars(DispatchStep) /\ WF_vars(WorkerStep)

\* Line 80: the first call of the progress callback raises; the exception
\* leaves process_folder.
L80Raise ==
  /\ pc = "l72"
  /\ ~NoFilesFound(total_files)
  /\ progress_callback
  /\ processed_count' = 0
  /\ exit_via' = "exception"
  /\ pc' = "raised"
  /\ UNCHANGED <<frameVars, processing, cancel_flag, progress_callback,
                 argVars, image_files, results, failed_files, failed_src,
                 pub_count, snapshot, cur, cj, poolVars, iterVars, ret,
                 ghostCancel, analyzer, ghostOrder, sideVars>>

\* Lines 100-119: the completion is handled and the call of the progress
\* callback raises; the exception leaves the loop and then the with block.
L119Raise ==
  /\ pc = "l100"
  /\ progress_callback
  /\ LET o == fut[cur]
         failed == FailedAfter(failed_files, o, image_files[cur])
     IN /\ results' = ResultsAfter(results, o)
        /\ failed_files' = failed
        /\ failed_src' = IF Len(failed) > Len(failed_files)
                           THEN Append(failed_src, cur) ELSE failed_src
  /\ processed_count' = processed_count + 1
  /\ cur' = 0
  /\ exit_via' = "exception"
  /\ pc' = "unwind"
  /\ UNCHANGED <<frameVars, processing, cancel_flag, progress_callback,
                 argVars, image_files, pub_count, snapshot, cj, poolVars,
                 iterVars, ret, ghostCancel, analyzer, ghostOrder,
                 sideVars>>

\* The with block is left by the exception: it waits for the pool, then
\* the exception leaves process_folder.
ShutdownRaised ==
  /\ pc = "unwind"
  /\ queue = <<>>
  /\ Running = {}
  /\ pc' = "raised"
  /\ UNCHANGED <<frameVars, processing, cancel_flag, progress_callback,
                 argVars, image_files, accVars, cur, cj, poolVars, iterVars,
                 ret, exit_via, ghostCancel, analyzer,
                 ghostOrder, sideVars>>

\* _perform_batch_processing catches the exception; _processing_error
\* shows it.
FrameError ==
  /\ pc = "raised"
  /\ caller = "gui"
  /\ is_processing' = FALSE
  /\ notice' = "error"
  /\ pc' = "idle"
  /\ ClearLocals
  /\ UNCHANGED <<caller, processing, cancel_flag, progress_callback, argVars,
                 sideVars>>

\* Any other caller gets the exception.
DirectRaised ==
  /\ pc = "raised"
  /\ caller = "direct"
  /\ pc' = "idle"
  /\ ClearLocals
  /\ UNCHANGED <<frameVars, processing, cancel_flag, progress_callback,
                 argVars, sideVars>>

\* The same program with a progress callback that can raise.
NextRaising ==
  \/ Next
  \/ L80Raise
  \/ L119Raise
  \/ ShutdownRaised
  \/ FrameError
  \/ DirectRaised

RaisingSpec == Init /\ [][NextRaising]_vars

\* ------------------------------------------------------------ properties
\* The dispatch loop has seen cancel_flag set and took the cancel branch.
Observed ==
  \/ pc \in {"l95", "shutdown"}
  \/ pc = "returned" /\ exit_via = "cancelled"

\* The futures exist and process_folder has not returned.
InDispatch == pc \in {"l92e", "l92", "l100", "l95", "shutdown"}

\* The futures whose outcome the loop body has handled.
Handled == yielded \ {cur}

Returned(via) == pc = "returned" /\ exit_via = via

\* How many records of res, and how many entries of failed_src, come from
\* task i.
RecordsOf(res, i) == Cardinality({ k \in 1..Len(res) : res[k].src = i })
FailuresOf(i) ==
  Cardinality({ k \in 1..Len(failed_src) : failed_src[k] = i })

\* How often path p is in a list of records, of paths, of files.
RecordsAt(res, p) ==
  Cardinality({ k \in 1..Len(res) : res[k].file_path = p })
EntriesAt(paths, p) == Cardinality({ k \in 1..Len(paths) : paths[k] = p })
FilesAt(files, p) ==
  Cardinality({ k \in 1..Len(files) : StrPath(files[k]) = p })

\* A step starts no task that was pending.
NoPendingTaskStarts ==
  \A i \in Futures : task[i] = "pending" => task'[i] # "running"

\* A step starts no task at all.
NoTaskStarts ==
  \A i \in Futures : task'[i] = "running" => task[i] = "running"

\* A cancelled future stays cancelled.
CancelledStaysCancelled ==
  \A i \in Futures : task[i] = "cancelled" => task'[i] = "cancelled"

\* A step that calls the callback: one call, made by the dispatch thread
\* at line 80 or line 119, with processed one more than in the last call.
OnePublication ==
  /\ pub_count' = pub_count + 1
  /\ pc \in {"l72", "l100"}
  /\ pc' # pc
  /\ pc = "l100"
       => /\ snapshot'.current = snapshot.current + 1
          /\ snapshot'.total = snapshot.total
          /\ processed_count' = processed_count + 1

\* A step after the loop took the cancel branch: nothing is published or
\* handled, cancel() cancels a pending future for good, and a pending task
\* is started only while the cancel loop has not reached it.
AfterObservation ==
  /\ pub_count' = pub_count
  /\ snapshot' = snapshot
  /\ results' = results
  /\ failed_files' = failed_files
  /\ (cj' = cj + 1 /\ task[cj] = "pending") => task'[cj] = "cancelled"
  /\ \A i \in Futures :
       /\ task[i] = "cancelled" => task'[i] = "cancelled"
       /\ (task[i] = "pending" /\ task'[i] = "running")
            => (pc = "l95" /\ i >= cj)

\* C1 as stated: whenever process_folder runs to completion without
\* cancellation, the records plus the failure entries it returns are as many
\* as the discovered files, N = 0 included, and the last published snapshot
\* has processed = N.
C1_Original ==
  (pc = "returned" /\ exit_via \in {"nofiles", "completed"})
    => /\ Len(ret.results) + Len(ret.failed) = total_files
       /\ (pub_count > 0 => snapshot.current = total_files)

\* C1 as amended: for N >= 1 a run that completes without cancellation
\* returns records and failure entries that together are N, has processed
\* N, and with a callback its last snapshot has processed = N; for N = 0 it
\* returns no record, the one sentinel entry, and publishes nothing.
C1_Amended ==
  /\ Returned("completed")
       => /\ total_files >= 1
          /\ Len(ret.results) + Len(ret.failed) = total_files
          /\ processed_count = total_files
          /\ progress_callback
               => /\ pub_count > 0
                  /\ snapshot.has_info
                  /\ snapshot.current = total_files
                  /\ snapshot.total = total_files
  /\ Returned("nofiles")
       => /\ total_files = 0
          /\ Len(ret.results) = 0
          /\ Len(ret.failed) = 1
          /\ pub_count = 0

C1_Witness ==
  /\ Returned("completed")
  /\ total_files >= 2
  /\ progress_callback
  /\ Len(ret.results) >= 1
  /\ Len(ret.failed) >= 1

\* C2 as stated: if cancel_processing is called inside process_folder when K
\* of the N tasks have completed, the returned records and failure entries
\* together are at most K.
C2_Claim ==
  (pc = "returned" /\ exit_via \in {"cancelled", "completed"}
     /\ cancelK # -1)
    => Len(ret.results) + Len(ret.failed) <= cancelK

\* C3 as stated: once cancel_processing was called while the batch runs,
\* no task that is still pending is started (and then waited for).
C3_Original ==
  [][(InDispatch /\ cancel_flag) => NoPendingTaskStarts]_vars

\* C3 as amended: after cancel_processing is called while a batch is
\* running, process_folder eventually returns; once the cancel loop has
\* called cancel() on every future no task is pending and none starts, so
\* the final wait is for the at most max_workers tasks running then, and a
\* cancelled task never runs.  (A task pending when cancel_processing was
\* called may still be started before the loop cancels it.)
C3_Amended ==
  /\ (InCall /\ cancel_flag) ~> (pc = "returned")
  /\ [](pc = "shutdown"
          => /\ \A i \in Futures : task[i] # "pending"
             /\ Cardinality(Running) <= max_workers)
  /\ [][(pc = "shutdown") => NoTaskStarts]_vars
  /\ [][InDispatch => CancelledStaysCancelled]_vars

C3_Witness ==
  /\ pc = "shutdown"
  /\ Running # {}
  /\ \E i \in Futures : task[i] = "cancelled"

\* C4: a task whose inference gives no record (no face, or an error) does
\* not end the batch: once the loop handled it, its path is in the failure
\* list exactly once and it is in no record, and an uncancelled batch still
\* handles every discovered file.
C4_FailureAbsorbed ==
  /\ Len(failed_files) = Len(failed_src)
  /\ \A i \in Futures :
       (task[i] = "finished" /\ fut[i].value.tag = "None")
         => /\ RecordsOf(results, i) = 0
            /\ FailuresOf(i) = (IF i \in Handled THEN 1 ELSE 0)
            /\ \A k \in 1..Len(failed_src) :
                 failed_src[k] = i
                   => failed_files[k] = StrPath(image_files[i])
  /\ Returned("completed")
       => /\ Handled = Tasks
          /\ processed_count = total_files
          /\ ret.failed = failed_files

C4_Witness ==
  /\ pc = "l100"
  /\ Len(failed_files) >= 1
  /\ fut[cur].value.tag = "rec"
  /\ \E i \in Futures : task[i] \in {"pending", "running"}

C6_Snapshots ==
  /\ [](/\ (InDispatch /\ progress_callback)
             => pub_count = processed_count + 1
        /\ (InDispatch /\ ~progress_callback) => pub_count = 0
        /\ pub_count > 0
             => /\ snapshot.current = pub_count - 1
                /\ snapshot.total = total_files
                /\ snapshot.has_info <=> pub_count > 1
                /\ snapshot.has_info
                     => snapshot.current = snapshot.success + snapshot.failed
                /\ snapshot.success = Len(results)
                /\ snapshot.failed = Len(failed_files))
  /\ [][(pub_count' # pub_count /\ pub_count' # 0) => OnePublication]_vars

C6_Witness ==
  /\ pub_count >= 3
  /\ snapshot.success >= 1
  /\ snapshot.failed >= 1

\* C7 as stated: once the dispatch loop has observed the cancel flag it
\* publishes no further snapshot, and no task that had not started at that
\* moment ever starts.
C7_Original ==
  [][(pc \in {"l95", "shutdown"})
       => (pub_count' = pub_count /\ NoPendingTaskStarts)]_vars

\* C7 as amended: once the dispatch loop has observed the cancel flag it
\* publishes no further snapshot and handles no further outcome; every task
\* that is still pending when the loop calls cancel() on its future is
\* cancelled and never begins an inference call, and after the last
\* cancel() no task is pending.  (A task a worker takes from the queue
\* before the loop reaches its future runs to its end.)
C7_Amended ==
  /\ [][(pc \in {"l95", "shutdown"}) => AfterObservation]_vars
  /\ [](Observed /\ pc # "l95"
          => \A i \in Futures :
               /\ task[i] # "pending"
               /\ task[i] = "cancelled" => fut[i].kind = "unset")

C7_Witness ==
  /\ pc = "shutdown"
  /\ pub_count >= 1
  /\ \E i \in Futures : task[i] = "cancelled"
  /\ \E i \in Futures : task[i] = "finished" /\ i \notin yielded

\* C8 as stated: once cancel_processing has set the flag for a run that was
\* started, the flag is not reset before that run's process_folder returns.
C8_Claim ==
  [][(RunActive /\ cancelReq /\ cancel_flag) => cancel_flag']_vars

\* C9: process_folder on a path that is missing or no directory submits no
\* task, publishes nothing and returns no record and the one failure entry
\* "Invalid folder path"; it never gets past the path check.
C9_InvalidFolder ==
  /\ Returned("invalid")
       => /\ folder # "dir"
          /\ ret = [results |-> <<>>, failed |-> <<"Invalid folder path">>]
          /\ Futures = {}
          /\ image_files = <<>>
          /\ pub_count = 0
          /\ ~processing
  /\ (folder # "dir" /\ pc \notin {"idle", "spawned", "l50", "l51", "l57"})
       => Returned("invalid")

C9_Witness ==
  /\ Returned("invalid")
  /\ folder = "file"
  /\ cb_arg

\* C10: process_folder on a folder in which no image file is discovered
\* creates no pool, publishes nothing and returns no record and the one
\* failure entry "No image files found".
C10_NoFiles ==
  /\ Returned("nofiles")
       => /\ folder = "dir"
          /\ total_files = 0
          /\ ret = [results |-> <<>>, failed |-> <<"No image files found">>]
          /\ Futures = {}
          /\ pub_count = 0
          /\ ~processing
  /\ (total_files = 0
        /\ pc \notin {"idle", "spawned", "l50", "l51", "l57", "l72"})
       => (Returned("nofiles") \/ Returned("invalid"))

C10_Witness ==
  /\ Returned("nofiles")
  /\ progress_callback
  /\ cancel_flag

\* C11: a batch request with an empty set of actions is rejected as invalid
\* input before any file is discovered or any task is submitted, through
\* the frame and through process_folder alike.
C11_Claim ==
  (pc # "idle" /\ actions = "empty")
    => /\ image_files = <<>>
       /\ task = <<>>
       /\ pc \notin {"l72", "l86", "l92e", "l92", "l100", "l95", "shutdown"}
       /\ (pc = "returned" => exit_via = "invalid")

\* C12: process_folder submits exactly one task per discovered file (task
\* i analyses entry i of image_files), and never more than max_workers
\* inference calls execute at the same time.
C12_OneTaskPerFile ==
  /\ Cardinality(Running) <= max_workers
  /\ (pc \in {"l92e", "l92", "l100", "l95", "shutdown"}
       \/ (pc = "returned" /\ exit_via \in {"completed", "cancelled"}))
      => /\ Futures = Tasks
         /\ total_files >= 1
         /\ \A i \in Futures :
              fut[i].kind = "result" /\ fut[i].value.tag = "rec"
                => fut[i].value.file_path = StrPath(image_files[i])
  /\ pc \in {"idle", "spawned", "l50", "l51", "l57", "l72", "l86"}
      => Futures = {}

\* The pool is full while a further task waits in the queue.
C12_Witness ==
  /\ Cardinality(Running) = max_workers
  /\ max_workers >= 2
  /\ queue # <<>>
  /\ task[Head(queue)] = "pending"

\* C13: every task analyses with a FaceAnalyzer it constructed itself; no
\* FaceAnalyzer is used by two tasks and the BatchProcessor's own
\* face_analyzer is used by none.
C13_OwnContext ==
  /\ DOMAIN analyzer = Futures
  /\ \A i \in Futures :
       /\ task[i] \in {"running", "finished"} => analyzer[i] = LocalAnalyzer(i)
       /\ task[i] \in {"pending", "cancelled"} => analyzer[i] = NoAnalyzer
       /\ analyzer[i] # OwnAnalyzer
  /\ \A i, j \in Futures :
       (i # j /\ analyzer[i] # NoAnalyzer) => analyzer[i] # analyzer[j]

\* Two tasks run at the same time, each with its analyzer.
C13_Witness ==
  \E i, j \in Running :
    /\ i # j
    /\ analyzer[i].kind = "local"
    /\ analyzer[j].kind = "local"
    /\ analyzer[i] # analyzer[j]

\* The place of future i in the order of completions.
CompletionRank(i) == CHOOSE k \in 1..Len(done_order) : done_order[k] = i

\* C14 as stated: of any two records, the one whose task completed first
\* comes first.
C14_Original ==
  \A a, b \in 1..Len(results) :
    a < b => CompletionRank(results[a].src) < CompletionRank(results[b].src)

\* C14 as amended: the records are in the order in which as_completed
\* yielded their tasks.  Tasks that complete after as_completed was entered
\* are in completion order; the tasks that were already finished at that
\* moment come before them, in no particular order among themselves.
C14_Amended ==
  \A a, b \in 1..Len(results) :
    a < b =>
      LET i == results[a].src
          j == results[b].src
      IN /\ j \in at_entry => i \in at_entry
         /\ (i \notin at_entry /\ j \notin at_entry)
              => CompletionRank(i) < CompletionRank(j)
         /\ (i \in at_entry /\ j \notin at_entry)
              => CompletionRank(i) < CompletionRank(j)

\* A batch returned three records: the second task completed last and its
\* record is last, the two that were finished at the start are in the
\* reverse of their completion order.
C14_Witness ==
  /\ Returned("completed")
  /\ Len(ret.results) = 3
  /\ done_order = <<1, 3, 2>>
  /\ at_entry = {1, 3}
  /\ ret.results[1].src = 3
  /\ ret.results[2].src = 1
  /\ ret.results[3].src = 2

\* The entries discovery is to return: the supported images of the folder
\* and, when recursive, of its subfolders.
SupportedIn(content, recursive) ==
  { f \in content : is_supported_image(f) /\ (recursive \/ f.depth = 0) }

\* C15: discovery returns exactly the files whose extension is, compared
\* case-insensitively, one of the four (mixed-case spellings included),
\* from the folder or from the folder and its subfolders, and no other.
C15_Claim ==
  d_pc = "done"
    => { d_found[k] : k \in 1..Len(d_found) }
         = SupportedIn(d_content, d_recursive)

\* The failure list an export call is to include: the list given, when
\* failures are included.
IncludedFailures ==
  IF e_call.include_failed /\ e_call.failed_files.given
    THEN e_call.failed_files.list ELSE <<>>

ExportDone(kind) == e_pc = "done" /\ e_file.kind = kind

\* C16: the CSV file has one of three layouts.  With records: the header,
\* one row per record and, only when failures are included and there are
\* some, a blank row, the row "Failed Files" and one row per failed path.
\* Without records but with included failures: the row "Failed Files"
\* and one row per failed path.  With neither: the row "No results found".
C16_CsvLayouts ==
  /\ (e_pc = "done" /\ StrLower(e_call.format) = "csv")
       => e_file.kind = "csv"
  /\ ExportDone("csv") =>
       LET recs == e_call.results
           n == Len(recs)
           F == IncludedFailures
           rows == e_file.rows
       IN IF n > 0
            THEN /\ Len(rows) = 1 + n + (IF F # <<>> THEN 2 + Len(F) ELSE 0)
                 /\ rows[1] = <<"age", "file_path", "file_name">>
                 /\ \A k \in 1..n :
                      rows[1 + k] = <<recs[k].age, recs[k].file_path,
                                      recs[k].file_name>>
                 /\ F # <<>> =>
                      /\ rows[n + 2] = <<>>
                      /\ rows[n + 3] = <<"Failed Files">>
                      /\ \A k \in 1..Len(F) : rows[n + 3 + k] = <<F[k]>>
          ELSE IF F # <<>>
            THEN /\ Len(rows) = 1 + Len(F)
                 /\ rows[1] = <<"Failed Files">>
                 /\ \A k \in 1..Len(F) : rows[1 + k] = <<F[k]>>
          ELSE rows = << <<"No results found">> >>

\* BatchProcessor.export_results wrote two data rows and a "Failed Files"
\* section with one path.
C16_Witness ==
  /\ ExportDone("csv")
  /\ e_call.api = "BatchProcessor"
  /\ Len(e_call.results) = 2
  /\ IncludedFailures = <<"folder/x.jpg">>
  /\ Len(e_file.rows) = 6

\* C17: the JSON object has a results array exactly when the result set is
\* not empty, a failed_files array exactly when failures are included and
\* there are some, and the single key message with the value
\* "No results found" exactly when it has neither.
C17_JsonKeys ==
  /\ (e_pc = "done" /\ StrLower(e_call.format) = "json")
       => e_file.kind = "json"
  /\ ExportDone("json") =>
       LET obj == e_file.object
           keys == DOMAIN obj
       IN /\ keys \subseteq {"results", "failed_files", "message"}
          /\ "results" \in keys <=> Len(e_call.results) > 0
          /\ "failed_files" \in keys <=> IncludedFailures # <<>>
          /\ "message" \in keys
               <=> ("results" \notin keys /\ "failed_files" \notin keys)
          /\ "results" \in keys => obj["results"].items = e_call.results
          /\ "failed_files" \in keys
               => obj["failed_files"].items = IncludedFailures
          /\ "message" \in keys
               => obj["message"].items = <<"No results found">>

\* Exporter.export_results wrote only the message although failures were
\* given: they were not to be included.
C17_Witness ==
  /\ ExportDone("json")
  /\ e_call.api = "Exporter"
  /\ ~e_call.include_failed
  /\ e_call.failed_files.list # <<>>
  /\ DOMAIN e_file.object = {"message"}

\* C18: an export with a format string that is neither of the two
\* recognised values (csv and json, in any case) raises the
\* unsupported-format error and writes no file, through
\* Exporter.export_results and through BatchProcessor.export_results.
C18_UnsupportedFormat ==
  (e_pc = "done" /\ StrLower(e_call.format) \notin {"csv", "json"})
    => /\ e_raised = "ValueError"
       /\ e_file.kind = "none"

\* BatchProcessor.export_results raised for "xml": the directory was made,
\* no file was written.
C18_Witness ==
  /\ e_pc = "done"
  /\ e_call.api = "BatchProcessor"
  /\ e_call.format = "xml"
  /\ e_raised = "ValueError"
  /\ e_dir
  /\ e_file.kind = "none"

\* C19: get_frame returns no frame whenever the camera is not capturing:
\* before the first start, and after stop has returned.
C19_Claim ==
  \A g \in Getters :
    (g_pc[g] = "returned" /\ g_quiet[g]) => g_ret[g] = <<>>

\* A returned copy is complete and of one write.
WholeFrame(copy) ==
  /\ Len(copy) = FrameCells
  /\ \E v \in 1..n_reads : \A k \in 1..FrameCells : copy[k] = v

\* C20: with the capture loop writing the latest-frame slot and any number
\* of threads calling get_frame, every call returns nothing or a complete
\* frame of one write, never a mix of two writes.
C20_NoTornFrame ==
  \A g \in Getters :
    /\ g_pc[g] = "returned" => (g_ret[g] = <<>> \/ WholeFrame(g_ret[g]))
    /\ g_pc[g] \in {"copy", "release"}
         => \A k \in 1..Len(g_ret[g]) : g_ret[g][k] = g_ret[g][1] /\ g_ret[g][k] >= 1

\* A get_frame call is half way through its copy of the first frame while
\* a capture thread is half way through writing the second.
C20_Witness ==
  /\ \E g \in Getters : g_pc[g] = "copy" /\ g_ret[g] = <<1>>
  /\ \E t \in CaptureThreads :
       /\ t_pc[t] = "fill"
       /\ t_val[t] = 2
       /\ heap[t_buf[t]][1] = 2
       /\ heap[t_buf[t]][FrameCells] # 2


\* What a get_frame call that starts now would copy.
SlotContent == IF frame = 0 THEN <<>> ELSE heap[frame]

\* Some caller writes into the frame it was given.
CallerWrites == \E g \in Getters : GetMutate(g)

\* C21: the frame get_frame (and capture_image, which returns get_frame())
\* hands out does not alias the capture loop's slot: a caller's write into
\* it leaves the slot and the array it refers to as they were, and no step
\* of anyone but that caller changes a frame that was already returned.
C21_NoAlias ==
  [][ /\ CallerWrites => SlotContent' = SlotContent
      /\ \A g \in Getters :
           (g_pc[g] = "returned" /\ g_pc'[g] = "returned" /\ ~GetMutate(g))
             => Held(g)' = Held(g) ]_vars

\* A caller has drawn on its frame, the capture loop has since stored a
\* newer image, and a later get_frame has returned that image whole.
C21_Witness ==
  \E g, h \in Getters :
    /\ g # h
    /\ g_pc[g] = "returned" /\ g_pc[h] = "returned"
    /\ g_ret[g] # <<>> /\ g_ret[g][1] = Scribble
    /\ g_ret[h] = [k \in 1..FrameCells |-> n_reads]
    /\ n_reads > 1
    /\ \A k \in 2..FrameCells : g_ret[g][k] = 1


\* A call of Camera.start, whatever its outcome.
StartCall == StartAlreadyRunning \/ StartOpenFailed \/ StartRaised \/ StartOk

\* Some capture thread is in its loop.
LiveLoop == \E t \in LoopThreads : ~Gone(t)

\* C22: every call of Camera.start returns a value; when the device cannot
\* be opened the value is False, running stays false and no capture thread
\* is started; the value is True exactly when a capture loop is running
\* after the call; a call on a running camera returns True and leaves the
\* device handle and the capture threads as they were.
C22_Claim ==
  [][ /\ (StartOpenFailed \/ StartRaised)
           => (c_ret' = "False" /\ ~running' /\ t_pc' = t_pc)
      /\ StartCall => (c_ret' = "True" <=> LiveLoop')
      /\ StartAlreadyRunning
           => (c_ret' = "True" /\ cap' = cap /\ t_pc' = t_pc) ]_vars


\* Camera.stop returns.
StopReturns == c_pc = "release" /\ c_pc' = "idle"

\* C23: a call of Camera.stop on a camera that was not running (never
\* started, start failed, or stopped before) returns with running, the
\* device handle and the thread attribute as they were when it was called;
\* every stop returns with running false, no handle and no thread, which a
\* second stop leaves so.  Object teardown is a call of stop.
C23_Claim ==
  [][ StopReturns =>
        /\ running' = FALSE /\ cap' = "none" /\ thread' = 0
        /\ ~stop_entry.running =>
              (running' = stop_entry.running /\ cap' = stop_entry.cap) ]_vars


\* The steps of stop are taken in the order of its lines: the join (or the
\* end of its wait) comes before the release.
JoinBeforeRelease ==
  /\ c_pc' = "release" => (c_pc = "release" \/ StopJoined \/ StopJoinTimeout)
  /\ c_pc' = "join" => (c_pc = "join" \/ StopFlag)
  /\ (cap # "none" /\ cap' = "none" /\ ~StartRaised) => StopReturns

\* C24: once stop is called on a running camera, every capture thread
\* that is alive ends, unless start is called again; and stop returns, after
\* the join and then the release, with running false and no device handle.
C24_StopEndsLoop ==
  /\ \A t \in 1..MaxLoops :
       (c_pc = "join" /\ stop_entry.running /\ ~Gone(t))
         ~> (Gone(t) \/ c_ret # "none")
  /\ [][ /\ JoinBeforeRelease
         /\ (StopReturns /\ stop_entry.running)
              => (~running' /\ cap' = "none") ]_vars

\* stop was called on a running camera and has returned without a device
\* handle, after a join that gave up: the capture thread is still in its
\* loop.
C24_Witness ==
  /\ c_pc = "idle"
  /\ c_ret = "none"
  /\ ~running
  /\ cap = "none"
  /\ \E t \in LoopThreads : t_pc[t] \in {"check", "read", "fill", "store"}


\* The first index above 0 that does not open, or max_cameras if the scan
\* meets none.
FirstUnopenable ==
  IF \E i \in 1..(max_cameras - 1) : i \notin p_openable
    THEN CHOOSE i \in 1..(max_cameras - 1) :
           /\ i \notin p_openable
           /\ \A j \in 1..(i - 1) : j \in p_openable
    ELSE max_cameras

\* C25: get_available_cameras probes 0, 1, 2, ... below max_cameras in
\* this order; when it returns it has probed up to and including the first
\* index above 0 that does not open (all of them if there is none, and on
\* past an index 0 that does not open), its list holds exactly the probed
\* indices that opened, in ascending order, and no device is held open.
C25_Enumeration ==
  /\ \A k \in 1..Len(p_probed) : p_probed[k] = k - 1 /\ k - 1 < max_cameras
  /\ p_pc = "done" =>
       /\ \A i \in 0..(max_cameras - 1) :
            (i <= FirstUnopenable)
              <=> (\E k \in 1..Len(p_probed) : p_probed[k] = i)
       /\ \A i \in 0..(MaxIndex - 1) :
            (i \in p_openable /\ i < FirstUnopenable /\ i < max_cameras)
              <=> (\E k \in 1..Len(available_cameras) :
                     available_cameras[k].id = i)
       /\ \A k \in 1..(Len(available_cameras) - 1) :
            available_cameras[k].id < available_cameras[k + 1].id
       /\ p_held = {}

\* A scan that went on past an index 0 that does not open, listed a
\* device and stopped at an index that does not open, before max_cameras.
C25_Witness ==
  /\ p_pc = "done"
  /\ 0 \notin p_openable
  /\ Len(available_cameras) > 0
  /\ Len(p_probed) < max_cameras
  /\ p_probed[Len(p_probed)] \notin p_openable


\* The batch frame handles the return of the process_folder call it made.
RunEnds == caller = "gui" /\ pc = "returned" /\ pc' = "idle"

\* C26: whatever process_folder returned to the batch frame (records, no
\* record, a cancelled run, nothing for a folder without image files), the
\* dialog that ends the run is the one that states the number of
\* successes and the number of failures.
C26_Claim == [][RunEnds => notice' = "complete_tally"]_vars


\* The capture threads that have been started and have not ended.
LiveLoops == {t \in LoopThreads : ~Gone(t)}

\* C27: whatever start and stop calls were made, a stop that gave up its
\* join and a start after it included, at most one capture thread is alive.
C27_Claim == Cardinality(LiveLoops) <= 1


\* stop has returned (or the camera was never used) and start has not been
\* called since.
Stopped == c_pc = "idle" /\ c_ret = "none"

\* C28: from the return of stop until the next call of start, no capture
\* thread begins a cap.read() and none assigns self.frame.
C28_Claim ==
  [][(Stopped /\ Stopped') => (n_reads' = n_reads /\ frame' = frame)]_vars


\* A process_folder call is between its first statement and its return
\* or the exception that ends it.
Executing ==
  pc \in {"l51", "l57", "l72", "l86", "l92e", "l92", "l100", "l95",
          "shutdown", "unwind"}

\* C29: BatchProcessor.processing is true only while a process_folder call
\* executes; it is false once the call has returned or has been left by an
\* exception of the progress callback.
C29_Claim == processing => Executing


\* C30: in CameraFrame, when no analysis result is held and no analysis is
\* under way (none running, no outcome waiting to be shown), the preview
\* is not frozen: is_image_frozen is false, so that _update_frame shows
\* frames again whenever the camera runs.
C30_Claim ==
  (analysis_result = "none" /\ v_pc = "none") => ~is_image_frozen

====
